---------------------------- MODULE Spec2Model ----------------------------
(***************************************************************************)
(* A model of the driver backup tool (src/src/main.rs): the INF parser     *)
(* (InfParser::parse_inf_file and the line parsers it calls), the          *)
(* class-then-package grouping and export loop of                          *)
(* DriverBackup::backup_drivers, the Export --files loop of main, and the  *)
(* file loops of InfParser::scan_folder and InfParser::inspect.            *)
(*                                                                         *)
(* Strings are TLA+ strings; Option<String> is a sequence of length 0      *)
(* (None) or 1 (Some); a HashMap is a function; the order in which a       *)
(* HashMap is iterated is not fixed by the program and is a choice.        *)
(***************************************************************************)
EXTENDS Integers, Sequences, FiniteSets, TLC

VARIABLES
    \* ---- InfParser::parse_inf_file
    content,          \* the decoded text, as the sequence content.lines() yields
    file_name,
    line_no,          \* index of the next line the for loop takes
    current_section,
    version_info,
    manufacturers,
    device_sections,
    string_table,
    drivers,
    ppc,              \* position in parse_inf_file: idle, scan, build, done
    run,              \* which of two runs over the same content this is
    first_parsed,     \* the ParsedInfFile the first run returned
    \* ---- DriverBackup::backup_drivers and the Export --files loop of main
    command,          \* none, Backup, ExportFiles
    dry_run,
    wmi_drivers,      \* the records handed to the loop
    drivers_by_class_inf,
    class_queue,      \* sorted_class_keys still to take
    inf_queue,        \* sorted_inf_keys still to take in the current class
    cur_class,
    backed_up_count,
    failed_count,
    driver_info,
    exported_infs,
    success_count,
    fail_count,
    next_driver,      \* index of the next record the for loop over the records takes
    mkdir_log,        \* the create_dir_all calls that succeeded, in call order
    labels,           \* the folder labels derived from record fields so far
    fs_files,         \* the files written
    pnputil_calls,    \* the launches of the export utility, in call order
    bpc,              \* position: idle, start, group, classes, packages, summary, done, failed
    \* ---- InfParser::scan_folder and InfParser::inspect
    operation,        \* none, scan, inspect
    path_kind,        \* what the path argument names: dir, inf, archive, other
    recursive,
    output,           \* whether a CSV path was given
    folder,           \* the files under the folder the operation works on
    discovered,       \* whether file discovery has returned
    inf_files,        \* what file discovery returned
    file_idx,         \* index of the next file the parse loop takes
    parsed_files,
    parse_errors,
    report,           \* the counts the summary prints, <<>> before it is printed
    csv_rows,         \* the rows of the CSV written, <<>> when none was written
    csv_written,
    needs_cleanup,
    temp_dir,         \* whether the extraction directory exists
    op_result,        \* running, Ok, Err
    spc,              \* position: idle, start, find, check, parse, report, csv, cleanup, done
    \* ---- one call of a function of the program on given arguments
    call,             \* the function called and its arguments
    returned          \* None before the call returns, Some of the value after

pvars == <<content, file_name, line_no, current_section, version_info,
           manufacturers, device_sections, string_table, drivers, ppc, run,
           first_parsed>>
bvars == <<command, dry_run, wmi_drivers, drivers_by_class_inf, class_queue,
           inf_queue, cur_class, backed_up_count, failed_count, driver_info,
           exported_infs, success_count, fail_count, next_driver, mkdir_log,
           labels, fs_files, pnputil_calls, bpc>>
svars == <<operation, path_kind, recursive, output, folder, discovered,
           inf_files, file_idx, parsed_files, parse_errors, report, csv_rows,
           csv_written, needs_cleanup, temp_dir, op_result, spc>>
uvars == <<call, returned>>
vars == <<pvars, bvars, svars, uvars>>

---------------------------------------------------------------------------
(* Bounds of the model *)

MaxBlocks == 3
MaxDrivers == 2

---------------------------------------------------------------------------
(* Option<T> *)

None == <<>>
Some(x) == <<x>>
unwrap_or(o, d) == IF o = None THEN d ELSE o[1]

---------------------------------------------------------------------------
(* str: the standard-library string operations the code uses *)

Char(s, i) == SubSeq(s, i, i)

UpperLetters == "ABCDEFGHIJKLMNOPQRSTUVWXYZ"
LowerLetters == "abcdefghijklmnopqrstuvwxyz"
Digits == "0123456789"

CharsOf(s) == {Char(s, i) : i \in 1..Len(s)}

IndexIn(s, c) ==
    IF \E i \in 1..Len(s) : Char(s, i) = c
    THEN CHOOSE i \in 1..Len(s) :
            /\ Char(s, i) = c
            /\ \A j \in 1..(i - 1) : Char(s, j) # c
    ELSE 0

LowerOf == [c \in CharsOf(UpperLetters) |-> Char(LowerLetters, IndexIn(UpperLetters, c))]
UpperOf == [c \in CharsOf(LowerLetters) |-> Char(UpperLetters, IndexIn(LowerLetters, c))]

RECURSIVE to_lowercase(_)
to_lowercase(s) ==
    IF s = "" THEN ""
    ELSE (IF Char(s, 1) \in DOMAIN LowerOf THEN LowerOf[Char(s, 1)] ELSE Char(s, 1))
         \o to_lowercase(SubSeq(s, 2, Len(s)))

RECURSIVE to_uppercase(_)
to_uppercase(s) ==
    IF s = "" THEN ""
    ELSE (IF Char(s, 1) \in DOMAIN UpperOf THEN UpperOf[Char(s, 1)] ELSE Char(s, 1))
         \o to_uppercase(SubSeq(s, 2, Len(s)))

is_whitespace(c) == c \in {" ", "\t", "\r"}
DigitChars == CharsOf(Digits)
AlphanumericChars == CharsOf(UpperLetters) \cup CharsOf(LowerLetters) \cup CharsOf(Digits)
is_ascii_digit(c) == c \in DigitChars
is_ascii_alphanumeric(c) == c \in AlphanumericChars
\* char::is_alphanumeric on the characters of the model, all of them ASCII
is_alphanumeric(c) == is_ascii_alphanumeric(c)

RECURSIVE trim_start(_)
trim_start(s) ==
    IF s # "" /\ is_whitespace(Char(s, 1)) THEN trim_start(SubSeq(s, 2, Len(s))) ELSE s

RECURSIVE trim_end(_)
trim_end(s) ==
    IF s # "" /\ is_whitespace(Char(s, Len(s)))
    THEN trim_end(SubSeq(s, 1, Len(s) - 1)) ELSE s

trim(s) == trim_end(trim_start(s))

RECURSIVE trim_start_matches(_, _)
trim_start_matches(s, c) ==
    IF s # "" /\ Char(s, 1) = c THEN trim_start_matches(SubSeq(s, 2, Len(s)), c) ELSE s

RECURSIVE trim_end_matches(_, _)
trim_end_matches(s, c) ==
    IF s # "" /\ Char(s, Len(s)) = c
    THEN trim_end_matches(SubSeq(s, 1, Len(s) - 1), c) ELSE s

trim_matches(s, c) == trim_end_matches(trim_start_matches(s, c), c)

starts_with(s, p) == Len(p) <= Len(s) /\ SubSeq(s, 1, Len(p)) = p
ends_with(s, p) == Len(p) <= Len(s) /\ SubSeq(s, Len(s) - Len(p) + 1, Len(s)) = p
contains(s, p) ==
    \E i \in 1..(Len(s) - Len(p) + 1) : SubSeq(s, i, i + Len(p) - 1) = p

\* s.splitn(2, c).collect()
splitn2(s, c) ==
    LET i == IndexIn(s, c)
    IN  IF i = 0 THEN <<s>>
        ELSE <<SubSeq(s, 1, i - 1), SubSeq(s, i + 1, Len(s))>>

\* s.split(c).collect()
RECURSIVE split(_, _)
split(s, c) ==
    LET i == IndexIn(s, c)
    IN  IF i = 0 THEN <<s>>
        ELSE <<SubSeq(s, 1, i - 1)>> \o split(SubSeq(s, i + 1, Len(s)), c)

\* the characters the model's keys are made of, in the order of their byte values
AsciiOrder == " ()-./0123456789ABCDEFGHIJKLMNOPQRSTUVWXYZ_abcdefghijklmnopqrstuvwxyz"
CodeOf == [c \in CharsOf(AsciiOrder) |-> IndexIn(AsciiOrder, c)]
Code(c) == CodeOf[c]

\* Ord of String: lexicographic on the bytes
RECURSIVE str_lt(_, _)
str_lt(a, b) ==
    IF b = "" THEN FALSE
    ELSE IF a = "" THEN TRUE
    ELSE IF Char(a, 1) = Char(b, 1)
         THEN str_lt(SubSeq(a, 2, Len(a)), SubSeq(b, 2, Len(b)))
         ELSE Code(Char(a, 1)) < Code(Char(b, 1))

\* the keys in descending order
RECURSIVE sorted_descending(_)
sorted_descending(S) ==
    IF S = {} THEN <<>>
    ELSE LET m == CHOOSE x \in S : \A y \in S \ {x} : str_lt(y, x)
         IN  <<m>> \o sorted_descending(S \ {m})

\* keys().cloned().collect() followed by sort()
RECURSIVE sorted(_)
sorted(S) ==
    IF S = {} THEN <<>>
    ELSE LET m == CHOOSE x \in S : \A y \in S \ {x} : str_lt(x, y)
         IN  <<m>> \o sorted(S \ {m})

\* HashMap::insert
insert(m, k, v) == [x \in DOMAIN m \cup {k} |-> IF x = k THEN v ELSE m[x]]
EmptyMap == [x \in {} |-> ""]

\* the orders in which the entries of a HashMap with key set S may be iterated
Orders(S) == {f \in [1..Cardinality(S) -> S] : \A i, j \in DOMAIN f : f[i] = f[j] => i = j}

---------------------------------------------------------------------------
(* InfParser: the line parsers *)

InfVersionInfo_default ==
    [driver_version |-> None, driver_date |-> None, class |-> None,
     class_guid |-> None, provider |-> None, catalog_file |-> None]

parse_version_line(line, vi) ==
    LET parts == splitn2(line, "=")
    IN  IF Len(parts) # 2 THEN vi
        ELSE
        LET key == to_lowercase(trim(parts[1]))
            value == trim_matches(trim(parts[2]), "\"")
            dv_parts == splitn2(value, ",")
        IN  CASE key = "driverver" ->
                   [vi EXCEPT !.driver_date = Some(trim(dv_parts[1])),
                              !.driver_version =
                                  IF Len(dv_parts) > 1 THEN Some(trim(dv_parts[2])) ELSE @]
              [] key = "class" -> [vi EXCEPT !.class = Some(value)]
              [] key = "classguid" -> [vi EXCEPT !.class_guid = Some(value)]
              [] key = "provider" -> [vi EXCEPT !.provider = Some(value)]
              [] key \in {"catalogfile", "catalogfile.nt", "catalogfile.ntamd64",
                          "catalogfile.ntx86"} -> [vi EXCEPT !.catalog_file = Some(value)]
              [] OTHER -> vi

parse_manufacturer_line(line, mfgs) ==
    LET parts == splitn2(line, "=")
    IN  IF Len(parts) # 2 THEN mfgs
        ELSE insert(mfgs, trim(parts[1]), trim(parts[2]))

HardwareIdPrefixes == {"PCI\\", "USB\\", "HDAUDIO\\", "ACPI\\", "HID\\", "SWD\\", "ROOT\\"}

\* a test that accepts every non-empty id
hardware_id_nonempty(hardware_id) == hardware_id # ""

hardware_id_accepted(hardware_id) ==
    /\ hardware_id # ""
    /\ \/ \E p \in HardwareIdPrefixes : starts_with(to_uppercase(hardware_id), p)
       \/ contains(to_uppercase(hardware_id), "VEN_")
       \/ contains(to_uppercase(hardware_id), "DEV_")

\* entry(section).or_default().push(pair)
push_device(ds, section, pair) ==
    insert(ds, section, (IF section \in DOMAIN ds THEN ds[section] ELSE <<>>) \o <<pair>>)

parse_device_line(line, section, ds) ==
    LET parts == splitn2(line, "=")
    IN  IF Len(parts) # 2 THEN ds
        ELSE
        LET device_desc == trim(parts[1])
            hw_parts == split(trim(parts[2]), ",")
        IN  IF Len(hw_parts) >= 2 /\ hardware_id_accepted(trim(hw_parts[2]))
            THEN push_device(ds, section, <<device_desc, trim(hw_parts[2])>>)
            ELSE ds

parse_strings_line(line, st) ==
    LET parts == splitn2(line, "=")
    IN  IF Len(parts) # 2 THEN st
        ELSE insert(st, trim(parts[1]), trim_matches(trim(parts[2]), "\""))

\* resolve_string returning the reference text without consulting the table
resolve_string_literal(s, st) == s

\* resolve_string giving the bare token when the table has no such key
resolve_string_stripped(s, st) ==
    IF starts_with(s, "%") /\ ends_with(s, "%") /\ Len(s) > 2
    THEN LET key == SubSeq(s, 2, Len(s) - 1)
         IN  IF key \in DOMAIN st THEN st[key] ELSE key
    ELSE s

resolve_string(s, st) ==
    IF starts_with(s, "%") /\ ends_with(s, "%") /\ Len(s) > 2
    THEN LET key == SubSeq(s, 2, Len(s) - 1)
         IN  IF key \in DOMAIN st THEN st[key] ELSE s
    ELSE s

\* mfg_section.split(',').next().unwrap_or(mfg_section)
base_section(mfg_section) == split(mfg_section, ",")[1]

---------------------------------------------------------------------------
(* InfParser::parse_inf_file: the arms of the scanning loop *)

is_skipped(line) == line = "" \/ starts_with(line, ";")
is_header(line) == starts_with(line, "[") /\ ends_with(line, "]")
\* the name between the brackets, in the case it was written in
header_name_verbatim(line) == SubSeq(line, 2, Len(line) - 1)

header_name(line) == to_lowercase(SubSeq(line, 2, Len(line) - 1))

\* the guard of the fourth match arm: the whole target, either direction
guard_arm(section, mfgs) ==
    \E n \in DOMAIN mfgs :
        LET sec_lower == to_lowercase(section)
        IN  \/ starts_with(to_lowercase(mfgs[n]), sec_lower)
            \/ starts_with(sec_lower, to_lowercase(mfgs[n]))

\* the loop of the last match arm: the stripped target a prefix of the section
fallback_arm(section, mfgs) ==
    \E n \in DOMAIN mfgs :
        starts_with(to_lowercase(section), to_lowercase(base_section(mfgs[n])))

\* which arm of the loop body a trimmed line takes
LineArm(line, section, mfgs) ==
    CASE is_skipped(line) -> "skip"
      [] is_header(line) -> "header"
      [] section = "version" -> "version"
      [] section = "manufacturer" -> "manufacturer"
      [] section = "strings" -> "strings"
      [] guard_arm(section, mfgs) -> "guard"
      [] fallback_arm(section, mfgs) -> "fallback"
      [] OTHER -> "none"

\* the state the scanning loop starts from
ParserStart ==
    [current_section |-> "", version_info |-> InfVersionInfo_default,
     manufacturers |-> EmptyMap, device_sections |-> EmptyMap,
     string_table |-> EmptyMap]

\* the body of the scanning loop on one line of the text
scan_line(st, raw_line) ==
    LET line == trim(raw_line)
        arm == LineArm(line, st.current_section, st.manufacturers)
    IN  CASE arm = "header" -> [st EXCEPT !.current_section = header_name(line)]
          [] arm = "version" ->
                [st EXCEPT !.version_info = parse_version_line(line, @)]
          [] arm = "manufacturer" ->
                [st EXCEPT !.manufacturers = parse_manufacturer_line(line, @)]
          [] arm = "strings" ->
                [st EXCEPT !.string_table = parse_strings_line(line, @)]
          [] arm \in {"guard", "fallback"} ->
                [st EXCEPT !.device_sections =
                               parse_device_line(line, st.current_section, @)]
          [] OTHER -> st

\* the scanning loop on a whole text
RECURSIVE scan_lines(_, _)
scan_lines(st, lines) ==
    IF lines = <<>> THEN st ELSE scan_lines(scan_line(st, Head(lines)), Tail(lines))

\* the manufacturer of a section: the first entry, in the order the map is
\* iterated, whose stripped target is a prefix of the section name
find_manufacturer(section_name, mfgs, st, mfg_order) ==
    LET hit(i) == starts_with(to_lowercase(section_name),
                              to_lowercase(base_section(mfgs[mfg_order[i]])))
    IN  IF \E i \in DOMAIN mfg_order : hit(i)
        THEN LET i == CHOOSE k \in DOMAIN mfg_order :
                         hit(k) /\ \A j \in 1..(k - 1) : ~hit(j)
             IN  Some(resolve_string(mfg_order[i], st))
        ELSE None

\* a record that carries the provider as the version section wrote it
InfDriverInfo_raw_provider(device, section_name, vi, mfgs, st, fname, mfg_order) ==
    [device_name |-> Some(resolve_string(device[1], st)),
     description |-> Some(resolve_string(device[1], st)),
     device_class |-> vi.class,
     class_guid |-> vi.class_guid,
     driver_version |-> vi.driver_version,
     driver_date |-> vi.driver_date,
     driver_provider_name |-> vi.provider,
     hardware_id |-> Some(device[2]),
     inf_name |-> Some(fname),
     catalog_file |-> vi.catalog_file,
     manufacturer |-> find_manufacturer(section_name, mfgs, st, mfg_order)]

InfDriverInfo(device, section_name, vi, mfgs, st, fname, mfg_order) ==
    [device_name |-> Some(resolve_string(device[1], st)),
     description |-> Some(resolve_string(device[1], st)),
     device_class |-> vi.class,
     class_guid |-> vi.class_guid,
     driver_version |-> vi.driver_version,
     driver_date |-> vi.driver_date,
     driver_provider_name |->
         IF vi.provider = None THEN None ELSE Some(resolve_string(vi.provider[1], st)),
     hardware_id |-> Some(device[2]),
     inf_name |-> Some(fname),
     catalog_file |-> vi.catalog_file,
     manufacturer |-> find_manufacturer(section_name, mfgs, st, mfg_order)]

\* the driver list: the sections in the order the map is iterated, the
\* devices of a section in the order they were pushed
RECURSIVE build_drivers(_, _, _, _, _, _, _)
build_drivers(sec_order, ds, vi, mfgs, st, fname, mfg_order) ==
    IF sec_order = <<>> THEN <<>>
    ELSE LET section_name == Head(sec_order)
             devices == ds[section_name]
         IN  [i \in 1..Len(devices) |->
                 InfDriverInfo(devices[i], section_name, vi, mfgs, st, fname, mfg_order)]
             \o build_drivers(Tail(sec_order), ds, vi, mfgs, st, fname, mfg_order)

ParsedInfFile(fname, drv, vi) ==
    [file_name |-> fname, drivers |-> drv, raw_version_info |-> vi]

---------------------------------------------------------------------------
(* The INF texts the parser is run on *)

BVersion == <<"[Version]", "Class=Net", "DriverVer = 06/21/2006,1.2.3", "Provider=%DiskName%">>
BStrings == <<"[Strings]", "DiskName=\"ACME Disk\"">>
BMfg == <<"[Manufacturer]", "ACME=Mfg001">>
BMfgDecorated == <<"[manufacturer]", "; vendors", "%DiskName% = Mfg001,NTamd64">>
BDev == <<"[Mfg001]", "%DiskName%=Install,PCI\\VEN_0001&DEV_0002">>
BDevDecorated == <<"[Mfg001.NTamd64]", "", "  Dev2 = Inst2, USB\\VID_1, USB\\VID_2", "Bad=Inst3,FOO\\BAR">>
BDevShort == <<"[MFG]", "%Missing%=I,pci\\ven_9">>
BOther == <<"[Other]", "X=I,PCI\\VEN_7">>
BVersionLater == <<"[version]", "DriverVer=02/02/2021", "class = \"Media\"">>

BlockPool ==
    {BVersion, BStrings, BMfg, BMfgDecorated, BDev, BDevDecorated, BDevShort, BOther,
     BVersionLater}

RECURSIVE Flatten(_)
Flatten(blocks) == IF blocks = <<>> THEN <<>> ELSE Head(blocks) \o Flatten(Tail(blocks))

BlockFiles == {Flatten(bs) : bs \in UNION {[1..n -> BlockPool] : n \in 0..MaxBlocks}}

\* the text of the scenario: a strings section holding K="V", a manufacturer
\* section holding N=T and a section [T] holding the one line %K%=I,H
ScenarioStrings(K, V) == <<"[Strings]", K \o "=\"" \o V \o "\"">>
ScenarioMfg(N, T) == <<"[Manufacturer]", N \o "=" \o T>>
ScenarioDev(K, T, I, H) == <<"[" \o T \o "]", "%" \o K \o "%=" \o I \o "," \o H>>
ScenarioFile(K, V, N, T, I, H, layout) ==
    LET S == ScenarioStrings(K, V)
        M == ScenarioMfg(N, T)
        D == ScenarioDev(K, T, I, H)
    IN  CASE layout = "SMD" -> S \o M \o D
          [] layout = "MSD" -> M \o S \o D
          [] layout = "MDS" -> M \o D \o S
          [] layout = "DMS" -> D \o M \o S

ScenarioKeys == {"DiskName", "k"}
ScenarioValues == {"ACME Disk", "v, 2"}
ScenarioNames == {"ACME"}
ScenarioTargets == {"Mfg001", "Mfg,NT"}
ScenarioInstalls == {"Install"}
ScenarioHardwareIds == {"PCI\\VEN_0001&DEV_0002", "usb\\x", "XDEV_1"}
\* the layouts in which section [T] comes after the manufacturer section
ScenarioLayouts == {"SMD", "MSD", "MDS"}

Scenarios ==
    {[text |-> ScenarioFile(K, V, N, T, I, H, lay), V |-> V, H |-> H] :
        K \in ScenarioKeys, V \in ScenarioValues, N \in ScenarioNames,
        T \in ScenarioTargets, I \in ScenarioInstalls, H \in ScenarioHardwareIds,
        lay \in ScenarioLayouts}

\* a version section whose provider is a reference, a strings section that
\* defines it, and a device section, in four orders
OrderedTexts ==
    {Flatten(<<BStrings, BVersion, BMfg, BDev>>),
     Flatten(<<BMfg, BDev, BStrings, BVersion>>),
     Flatten(<<BVersion, BMfg, BDev, BStrings>>),
     Flatten(<<BMfg, BStrings, BDev, BVersion>>)}

\* a manufacturer section that gives one name two targets, and the sections
\* of the two targets
BMfgTwice == <<"[Manufacturer]", "ACME=Mfg001", "ACME=Other">>
RepeatedNameTexts == {BMfgTwice \o BDev, BMfgTwice \o BOther \o BDev}

InfTexts ==
    BlockFiles \cup {sc.text : sc \in Scenarios} \cup OrderedTexts \cup RepeatedNameTexts

---------------------------------------------------------------------------
(* InfParser::parse_inf_file as a state machine *)

ParseIdle ==
    /\ content = <<>>
    /\ file_name = ""
    /\ line_no = 1
    /\ current_section = ""
    /\ version_info = InfVersionInfo_default
    /\ manufacturers = EmptyMap
    /\ device_sections = EmptyMap
    /\ string_table = EmptyMap
    /\ drivers = <<>>
    /\ ppc = "idle"
    /\ run = 1
    /\ first_parsed = None

ParseInit ==
    /\ content \in InfTexts
    /\ file_name = "acme.inf"
    /\ line_no = 1
    /\ current_section = ""
    /\ version_info = InfVersionInfo_default
    /\ manufacturers = EmptyMap
    /\ device_sections = EmptyMap
    /\ string_table = EmptyMap
    /\ drivers = <<>>
    /\ ppc = "scan"
    /\ run = 1
    /\ first_parsed = None

cur_line == trim(content[line_no])

AtArm(arm) ==
    /\ ppc = "scan"
    /\ line_no <= Len(content)
    /\ LineArm(cur_line, current_section, manufacturers) = arm

NextLine ==
    /\ line_no' = line_no + 1
    /\ UNCHANGED <<content, file_name, drivers, ppc, run, first_parsed>>
    /\ UNCHANGED <<bvars, svars, uvars>>

\* the five maps and fields the scanning loop updates
Scanned(st) ==
    /\ current_section' = st.current_section
    /\ version_info' = st.version_info
    /\ manufacturers' = st.manufacturers
    /\ device_sections' = st.device_sections
    /\ string_table' = st.string_table

ScanStep ==
    /\ Scanned(scan_line([current_section |-> current_section,
                          version_info |-> version_info,
                          manufacturers |-> manufacturers,
                          device_sections |-> device_sections,
                          string_table |-> string_table],
                         content[line_no]))
    /\ NextLine

\* one pass of the scanning loop, by the arm the line takes
SkipLine ==
    /\ AtArm("skip")
    /\ ScanStep

SectionHeader ==
    /\ AtArm("header")
    /\ ScanStep

VersionLine ==
    /\ AtArm("version")
    /\ ScanStep

ManufacturerLine ==
    /\ AtArm("manufacturer")
    /\ ScanStep

StringsLine ==
    /\ AtArm("strings")
    /\ ScanStep

DeviceLineGuard ==
    /\ AtArm("guard")
    /\ ScanStep

DeviceLineFallback ==
    /\ AtArm("fallback")
    /\ ScanStep

UnmatchedLine ==
    /\ AtArm("none")
    /\ ScanStep


\* the loop over device_sections after the last line, and the return
BuildDriverList ==
    /\ ppc = "scan"
    /\ line_no > Len(content)
    /\ \E sec_order \in Orders(DOMAIN device_sections),
          mfg_order \in Orders(DOMAIN manufacturers) :
          drivers' = build_drivers(sec_order, device_sections, version_info,
                                   manufacturers, string_table, file_name, mfg_order)
    /\ ppc' = "done"
    /\ UNCHANGED <<content, file_name, line_no, current_section, version_info,
                   manufacturers, device_sections, string_table, run, first_parsed>>
    /\ UNCHANGED <<bvars, svars, uvars>>

\* a second call of parse_inf_file on the same file
ParseAgain ==
    /\ ppc = "done"
    /\ run = 1
    /\ first_parsed' = Some(ParsedInfFile(file_name, drivers, version_info))
    /\ run' = 2
    /\ line_no' = 1
    /\ current_section' = ""
    /\ version_info' = InfVersionInfo_default
    /\ manufacturers' = EmptyMap
    /\ device_sections' = EmptyMap
    /\ string_table' = EmptyMap
    /\ drivers' = <<>>
    /\ ppc' = "scan"
    /\ UNCHANGED <<content, file_name>>
    /\ UNCHANGED <<bvars, svars, uvars>>

ParseNext ==
    \/ SkipLine
    \/ SectionHeader
    \/ VersionLine
    \/ ManufacturerLine
    \/ StringsLine
    \/ DeviceLineGuard
    \/ DeviceLineFallback
    \/ UnmatchedLine
    \/ BuildDriverList
    \/ ParseAgain

---------------------------------------------------------------------------
(* The parts of the state a specification does not use *)

BackupIdle ==
    /\ command = "none"
    /\ dry_run = FALSE
    /\ wmi_drivers = <<>>
    /\ drivers_by_class_inf = EmptyMap
    /\ class_queue = <<>>
    /\ inf_queue = <<>>
    /\ cur_class = ""
    /\ backed_up_count = 0
    /\ failed_count = 0
    /\ driver_info = <<>>
    /\ exported_infs = {}
    /\ success_count = 0
    /\ fail_count = 0
    /\ next_driver = 1
    /\ mkdir_log = <<>>
    /\ labels = {}
    /\ fs_files = {}
    /\ pnputil_calls = <<>>
    /\ bpc = "idle"

ScanIdle ==
    /\ operation = "none"
    /\ path_kind = "dir"
    /\ recursive = FALSE
    /\ output = FALSE
    /\ folder = {}
    /\ discovered = FALSE
    /\ inf_files = <<>>
    /\ file_idx = 1
    /\ parsed_files = <<>>
    /\ parse_errors = <<>>
    /\ report = <<>>
    /\ csv_rows = <<>>
    /\ csv_written = FALSE
    /\ needs_cleanup = FALSE
    /\ temp_dir = FALSE
    /\ op_result = "running"
    /\ spc = "idle"

CallIdle ==
    /\ call = [fn |-> "none"]
    /\ returned = None

---------------------------------------------------------------------------
(* parse_inf_file run twice on one INF text *)

SpecParseInit == ParseInit /\ BackupIdle /\ ScanIdle /\ CallIdle
SpecParse == SpecParseInit /\ [][ParseNext]_vars

---------------------------------------------------------------------------
(* Properties of parse_inf_file *)

\* C1: for every INF text whose strings section holds K="V", whose
\* manufacturer section holds N=T and whose section [T], after the
\* manufacturer section, holds the single device line %K%=I,H with H an
\* accepted hardware id, parse_inf_file returns exactly one driver record,
\* with device_name V and hardware_id H.
C1_ScenarioYieldsOneRecord ==
    ppc = "done" =>
        \A sc \in Scenarios :
            content = sc.text =>
                /\ Len(drivers) = 1
                /\ drivers[1].device_name = Some(sc.V)
                /\ drivers[1].hardware_id = Some(sc.H)

C1_Witness ==
    /\ ppc = "done"
    /\ content = ScenarioFile("DiskName", "ACME Disk", "ACME", "Mfg001", "Install",
                              "PCI\\VEN_0001&DEV_0002", "SMD")
    /\ Len(drivers) = 1
    /\ drivers[1].device_name = Some("ACME Disk")
    /\ drivers[1].hardware_id = Some("PCI\\VEN_0001&DEV_0002")

\* the names of the sections of a text
SectionNames(lines) ==
    {header_name(trim(lines[i])) :
        i \in {j \in 1..Len(lines) : ~is_skipped(trim(lines[j])) /\ is_header(trim(lines[j]))}}

ReservedSections == {"version", "manufacturer", "strings"}

\* the accepted device lines of section s of a text, in file order
RECURSIVE AcceptedDeviceLines(_, _, _)
AcceptedDeviceLines(lines, cur, s) ==
    IF lines = <<>> THEN <<>>
    ELSE LET line == trim(Head(lines))
         IN  IF is_skipped(line) THEN AcceptedDeviceLines(Tail(lines), cur, s)
             ELSE IF is_header(line)
                  THEN AcceptedDeviceLines(Tail(lines), header_name(line), s)
             ELSE IF cur = s
                  THEN (LET ds == parse_device_line(line, s, EmptyMap)
                        IN  IF s \in DOMAIN ds THEN ds[s] ELSE <<>>)
                       \o AcceptedDeviceLines(Tail(lines), cur, s)
             ELSE AcceptedDeviceLines(Tail(lines), cur, s)

\* case-insensitive prefix compatibility, in either direction, of a section
\* name with some manufacturer target stripped of its decoration suffix
PrefixCompatible(s, mfgs) ==
    \E n \in DOMAIN mfgs :
        LET b == to_lowercase(base_section(mfgs[n]))
        IN  starts_with(b, to_lowercase(s)) \/ starts_with(to_lowercase(s), b)

\* C2: device-section membership is a function of the complete
\* ManufacturerMap and the section names: for every section other than
\* version, manufacturer and strings, wherever it stands relative to the
\* manufacturer section, its accepted device lines yield driver records iff
\* its name is prefix-compatible with some stripped manufacturer target.
C2_MembershipByCompleteMap ==
    ppc = "done" =>
        \A s \in SectionNames(content) \ ReservedSections :
            LET lines == AcceptedDeviceLines(content, "", s)
            IN  lines # <<>> =>
                    IF PrefixCompatible(s, manufacturers)
                    THEN s \in DOMAIN device_sections /\ device_sections[s] = lines
                    ELSE s \notin DOMAIN device_sections

\* C3: two runs of parse_inf_file on the same content return the same
\* ParsedFile, field for field, the order of the driver records and the
\* manufacturer of each record included.
C3_SecondRunSameResult ==
    (ppc = "done" /\ run = 2) =>
        ParsedInfFile(file_name, drivers, version_info) = first_parsed[1]

\* the names of the manufacturer entries of a text, in declaration order
RECURSIVE DeclaredManufacturers(_, _, _)
DeclaredManufacturers(lines, cur, seen) ==
    IF lines = <<>> THEN seen
    ELSE LET line == trim(Head(lines))
         IN  IF is_skipped(line) THEN DeclaredManufacturers(Tail(lines), cur, seen)
             ELSE IF is_header(line)
                  THEN DeclaredManufacturers(Tail(lines), header_name(line), seen)
             ELSE IF cur = "manufacturer"
                  THEN LET names == DOMAIN parse_manufacturer_line(line, EmptyMap)
                           fresh == {n \in names : \A i \in DOMAIN seen : seen[i] # n}
                       IN  DeclaredManufacturers(Tail(lines), cur,
                               IF fresh = {} THEN seen
                               ELSE Append(seen, CHOOSE n \in fresh : TRUE))
             ELSE DeclaredManufacturers(Tail(lines), cur, seen)

\* C11: the manufacturer of every driver record is that of the first
\* manufacturer entry, in the declaration order of the file, whose
\* decoration-stripped target is a case-insensitive prefix of the record's
\* section name: the driver list is the one built with the manufacturer
\* entries searched in declaration order.
C11_ManufacturerFirstDeclared ==
    ppc = "done" =>
        \E sec_order \in Orders(DOMAIN device_sections) :
            drivers = build_drivers(sec_order, device_sections, version_info,
                                    manufacturers, string_table, file_name,
                                    DeclaredManufacturers(content, "", <<>>))

\* the key of a key=value line
line_key(line) == to_lowercase(trim(splitn2(line, "=")[1]))

\* the VersionBlock in which every field holds what the last version-section
\* line for its key gave, and nothing of an earlier line for that key
RECURSIVE LastWriteWins(_, _, _)
LastWriteWins(lines, cur, vi) ==
    IF lines = <<>> THEN vi
    ELSE LET line == trim(Head(lines))
             alone == parse_version_line(line, InfVersionInfo_default)
         IN  IF is_skipped(line) THEN LastWriteWins(Tail(lines), cur, vi)
             ELSE IF is_header(line)
                  THEN LastWriteWins(Tail(lines), header_name(line), vi)
             ELSE IF cur = "version" /\ line_key(line) = "driverver"
                  THEN LastWriteWins(Tail(lines), cur,
                           [vi EXCEPT !.driver_date = alone.driver_date,
                                      !.driver_version = alone.driver_version])
             ELSE IF cur = "version"
                  THEN LastWriteWins(Tail(lines), cur, parse_version_line(line, vi))
             ELSE LastWriteWins(Tail(lines), cur, vi)

\* C12: after parsing, every VersionBlock field holds only what the last
\* version-section line for its key gave: after two driverver lines both
\* driver_date and driver_version are those of the later line, and a
\* driverver line without a version part gives no driver_version.
C12_VersionLastWriteWins ==
    ppc \in {"build", "done"} \/ (ppc = "scan" /\ line_no > Len(content)) =>
        version_info = LastWriteWins(content, "", InfVersionInfo_default)

\* a line of the text, as the claim classifies it
IsBlankOrComment(raw) == trim(raw) = "" \/ SubSeq(trim(raw), 1, 1) = ";"
IsHeaderLine(raw) ==
    /\ ~IsBlankOrComment(raw)
    /\ SubSeq(trim(raw), 1, 1) = "[" /\ SubSeq(trim(raw), Len(trim(raw)), Len(trim(raw))) = "]"
IsDataLine(raw) == ~IsBlankOrComment(raw) /\ ~IsHeaderLine(raw)

\* the lower-cased name of the last header line of the lines, "" without one
RECURSIVE MostRecentHeader(_)
MostRecentHeader(lines) ==
    IF lines = <<>> THEN ""
    ELSE LET raw == lines[Len(lines)]
         IN  IF IsHeaderLine(raw)
             THEN to_lowercase(SubSeq(trim(raw), 2, Len(trim(raw)) - 1))
             ELSE MostRecentHeader(SubSeq(lines, 1, Len(lines) - 1))

ParsedData == <<version_info, manufacturers, device_sections, string_table>>

\* device_sections' is device_sections with one pair added at the end of the
\* list of the section
OnePairAppended(section) ==
    /\ DOMAIN device_sections' = DOMAIN device_sections \cup {section}
    /\ \A sec \in DOMAIN device_sections \ {section} :
           device_sections'[sec] = device_sections[sec]
    /\ LET before == IF section \in DOMAIN device_sections
                     THEN device_sections[section] ELSE <<>>
       IN  /\ Len(device_sections'[section]) = Len(before) + 1
           /\ SubSeq(device_sections'[section], 1, Len(before)) = before

\* what one pass of the scanning loop may do with the line it is at
LineAttributed ==
    LET raw == content[line_no]
        section == MostRecentHeader(SubSeq(content, 1, line_no - 1))
    IN  /\ IsBlankOrComment(raw) => UNCHANGED <<current_section, ParsedData>>
        /\ IsHeaderLine(raw) => UNCHANGED ParsedData
        /\ IsDataLine(raw) =>
            /\ current_section' = current_section
            /\ section # "version" => version_info' = version_info
            /\ section # "manufacturer" => manufacturers' = manufacturers
            /\ section # "strings" => string_table' = string_table
            /\ \/ device_sections' = device_sections
               \/ /\ section \notin {"version", "manufacturer", "strings"}
                  /\ OnePairAppended(section)

\* C18: while parse_inf_file scans the text, the current section is the
\* lower-cased name of the most recent header line before the line it is at,
\* so every data line is attributed to that section; a blank line or a line
\* starting with ';' changes neither the section nor the data, a header line
\* changes no data, a data line changes only the data of its section, and a
\* device line adds one pair at the end of the one list of its section, also
\* when the header of the section occurs more than once.
C18_LinesAttributedToSection ==
    /\ [](ppc \in {"scan", "build", "done"} =>
            /\ line_no - 1 <= Len(content)
            /\ current_section = MostRecentHeader(SubSeq(content, 1, line_no - 1)))
    /\ [][(ppc = "scan" /\ line_no' = line_no + 1) => LineAttributed]_vars

\* a section whose header occurs twice, after a manufacturer section with a
\* comment line: its two device lines are in one list in file order
C18_Witness ==
    /\ ppc = "done"
    /\ content = Flatten(<<BMfgDecorated, BDev, BDev>>)
    /\ device_sections["mfg001"] =
           <<<<"%DiskName%", "PCI\\VEN_0001&DEV_0002">>,
             <<"%DiskName%", "PCI\\VEN_0001&DEV_0002">>>>

\* the lines of the sections named in names (kept TRUE) or of the other
\* sections (kept FALSE), in the order of the text; cur is the section so far
RECURSIVE LinesOfSections(_, _, _, _)
LinesOfSections(lines, names, kept, cur) ==
    IF lines = <<>> THEN <<>>
    ELSE LET raw == Head(lines)
             sec == IF IsHeaderLine(raw)
                    THEN to_lowercase(SubSeq(trim(raw), 2, Len(trim(raw)) - 1))
                    ELSE cur
         IN  (IF (sec \in names) = kept THEN <<raw>> ELSE <<>>)
             \o LinesOfSections(Tail(lines), names, kept, sec)

\* the text with its strings and version sections moved to the front, and to
\* the end
SectionsFirst(lines) ==
    LinesOfSections(lines, {"strings", "version"}, TRUE, "")
        \o LinesOfSections(lines, {"strings", "version"}, FALSE, "")
SectionsLast(lines) ==
    LinesOfSections(lines, {"strings", "version"}, FALSE, "")
        \o LinesOfSections(lines, {"strings", "version"}, TRUE, "")

\* the driver lists parse_inf_file may return for a text
DriverListsOf(lines) ==
    LET st == scan_lines(ParserStart, lines)
    IN  {build_drivers(sec_order, st.device_sections, st.version_info, st.manufacturers,
                       st.string_table, file_name, mfg_order) :
            sec_order \in Orders(DOMAIN st.device_sections),
            mfg_order \in Orders(DOMAIN st.manufacturers)}

\* the text a reference stands for, by the string table at the end of the scan
ResolvedAtEnd(text) ==
    IF Len(text) > 2 /\ SubSeq(text, 1, 1) = "%" /\ SubSeq(text, Len(text), Len(text)) = "%"
       /\ SubSeq(text, 2, Len(text) - 1) \in DOMAIN string_table
    THEN string_table[SubSeq(text, 2, Len(text) - 1)]
    ELSE text

\* the <<description, hardware id>> pairs of the device lines read
DevicePairs ==
    UNION {{device_sections[sec][k] : k \in DOMAIN device_sections[sec]} :
              sec \in DOMAIN device_sections}

\* C24: string resolution and version metadata do not depend on the order of
\* the sections: every driver record has its description and its provider
\* resolved by the complete string table and its class, class GUID, version,
\* date and catalog taken from the version block as it is at the end of the
\* text, and the records are those of the same text with its strings and
\* version sections moved before, or after, all other sections.
C24_ResolutionIgnoresSectionOrder ==
    ppc = "done" =>
        /\ \A i \in DOMAIN drivers :
               LET r == drivers[i]
               IN  /\ \E pair \in DevicePairs :
                          /\ r.hardware_id = Some(pair[2])
                          /\ r.description = Some(ResolvedAtEnd(pair[1]))
                          /\ r.device_name = r.description
                   /\ r.driver_provider_name =
                          (IF version_info.provider = None THEN None
                           ELSE Some(ResolvedAtEnd(version_info.provider[1])))
                   /\ r.device_class = version_info.class
                   /\ r.class_guid = version_info.class_guid
                   /\ r.driver_version = version_info.driver_version
                   /\ r.driver_date = version_info.driver_date
                   /\ r.catalog_file = version_info.catalog_file
        /\ version_info = scan_lines(ParserStart, content).version_info
        /\ string_table = scan_lines(ParserStart, content).string_table
        /\ drivers \in DriverListsOf(SectionsFirst(content))
        /\ drivers \in DriverListsOf(SectionsLast(content))

\* the device section before the version and strings sections that its
\* record draws on
C24_Witness ==
    /\ ppc = "done"
    /\ content = Flatten(<<BMfg, BDev, BStrings, BVersion>>)
    /\ Len(drivers) = 1
    /\ drivers[1].description = Some("ACME Disk")
    /\ drivers[1].driver_provider_name = Some("ACME Disk")
    /\ drivers[1].driver_version = Some("1.2.3")
    /\ drivers[1].device_class = Some("Net")

\* the targets of the manufacturer entries among the lines: the text after
\* the first '=' of each data line of a [manufacturer] section
RECURSIVE TargetsRead(_)
TargetsRead(lines) ==
    IF lines = <<>> THEN {}
    ELSE LET before == SubSeq(lines, 1, Len(lines) - 1)
             raw == lines[Len(lines)]
             eq == {i \in 1..Len(raw) : SubSeq(raw, i, i) = "="}
         IN  TargetsRead(before)
             \cup (IF IsDataLine(raw) /\ MostRecentHeader(before) = "manufacturer" /\ eq # {}
                   THEN {trim(SubSeq(raw, (CHOOSE i \in eq : \A j \in eq : i <= j) + 1, Len(raw)))}
                   ELSE {})

\* a target without its decorations: the text before its first comma
Stripped(target) ==
    LET commas == {i \in 1..Len(target) : SubSeq(target, i, i) = ","}
    IN  IF commas = {} THEN target
        ELSE SubSeq(target, 1, (CHOOSE i \in commas : \A j \in commas : i <= j) - 1)

IsPrefixOf(a, b) == Len(a) <= Len(b) /\ SubSeq(b, 1, Len(a)) = a
EitherPrefixes(a, b) ==
    IsPrefixOf(to_lowercase(a), to_lowercase(b)) \/ IsPrefixOf(to_lowercase(b), to_lowercase(a))

\* C25: while parse_inf_file scans the text, a data line of a section other
\* than version, manufacturer and strings is handed to the device-line parser
\* (by the guard arm or by the fallback arm, never by both) exactly when the
\* name of its section is, without regard to case, a prefix of the stripped
\* target of some manufacturer entry read on an earlier line, or has that
\* stripped target as a prefix.
C25_HandedIffPrefixCompatible ==
    (ppc = "scan" /\ line_no <= Len(content) /\ IsDataLine(content[line_no])
        /\ current_section \notin {"version", "manufacturer", "strings"}) =>
        LET before == SubSeq(content, 1, line_no - 1)
            handed == LineArm(cur_line, current_section, manufacturers) \in {"guard", "fallback"}
        IN  handed <=> \E t \in TargetsRead(before) :
                           EitherPrefixes(MostRecentHeader(before), Stripped(t))

---------------------------------------------------------------------------
(* DriverBackup: the records and the pure functions of backup_drivers *)

PnPSignedDriver(class, name, version, provider, inf, id) ==
    [device_class |-> class, device_name |-> name, driver_version |-> version,
     driver_provider_name |-> provider, inf_name |-> inf, device_id |-> id]

\* the records the device-metadata source may supply
DriverPool ==
    {PnPSignedDriver(Some("Net"), Some("Dev A"), Some("1.0"), Some("Acme"), Some("oem1.inf"), "D1"),
     PnPSignedDriver(Some("Media"), Some("Dev B"), Some("2.0"), Some("Acme"), Some("OEM1.INF"), "D2"),
     PnPSignedDriver(None, None, None, None, Some("oem2.inf"), "D3"),
     PnPSignedDriver(Some("Net"), Some("Dev A"), Some("1.0"), Some("Acme"), Some("oem2.inf"), "D4"),
     PnPSignedDriver(Some("Net"), Some("Dev E"), Some("1.0"), Some("Acme"), None, "D5"),
     PnPSignedDriver(Some("Net"), Some("Dev F"), Some("1.0"), Some("Acme"), Some("netfoo.inf"), "D6"),
     PnPSignedDriver(Some("Net"), Some("Dev G"), Some("1.0"), Some("Acme"), Some("oem 7.txt"), "D7"),
     PnPSignedDriver(Some("Net/"), Some("A..B"), Some("3.0/"), Some("Acme, Inc."), Some("oem8.inf"), "D8"),
     PnPSignedDriver(Some("Net"), Some("Dev H"), Some("9.0"), Some("Acme"), Some("Oem1.inf"), "D9")}

DriverLists == UNION {[1..n -> DriverPool] : n \in 0..MaxDrivers}

\* str::parse::<u32> of a string of digits
RECURSIVE parse_u32(_)
parse_u32(s) ==
    IF s = "" THEN 0
    ELSE 10 * parse_u32(SubSeq(s, 1, Len(s) - 1)) + (IndexIn(Digits, Char(s, Len(s))) - 1)

all_ascii_digits(s) == \A i \in 1..Len(s) : is_ascii_digit(Char(s, i))

\* the one character of the model that is not ASCII: U+00E9, e with an acute
\* accent, two bytes in UTF-8, written ~ in the strings of the model
E_ACUTE == "~"

\* char::len_utf8 on the characters of the model
len_utf8(c) == IF c = E_ACUTE THEN 2 ELSE 1

\* str::len: the length in bytes
RECURSIVE byte_len(_)
byte_len(s) == IF s = "" THEN 0 ELSE len_utf8(Char(s, 1)) + byte_len(SubSeq(s, 2, Len(s)))

\* str::is_char_boundary for an index up to the length
is_char_boundary(s, index) == \E k \in 0..Len(s) : byte_len(SubSeq(s, 1, k)) = index

\* &s[0..index] for an index that is a char boundary
byte_prefix(s, index) ==
    SubSeq(s, 1, CHOOSE k \in 0..Len(s) : byte_len(SubSeq(s, 1, k)) = index)

\* the slice date_str[0..8] panics: byte 8 is inside a character
date_slice_panics(driver_date) ==
    /\ driver_date # None
    /\ byte_len(driver_date[1]) >= 8
    /\ ~is_char_boundary(driver_date[1], 8)

\* the outcome of a call that panicked, where a returned value v is Some(v)
Panicked == <<"panicked", "byte index 8 is not a char boundary">>

\* the mutant of format_driver_date that does not test the month and the day
format_driver_date_unranged(driver_date) ==
    IF driver_date = None THEN "Unknown"
    ELSE LET date_str == driver_date[1]
         IN  IF Len(date_str) >= 8 /\ all_ascii_digits(SubSeq(date_str, 1, 8))
             THEN SubSeq(date_str, 1, 4) \o "-" \o SubSeq(date_str, 5, 6)
                      \o "-" \o SubSeq(date_str, 7, 8)
             ELSE date_str

format_driver_date(driver_date) ==
    IF driver_date = None THEN "Unknown"
    ELSE LET date_str == driver_date[1]
         IN  IF byte_len(date_str) >= 8
             THEN LET head == byte_prefix(date_str, 8)
                      year == SubSeq(head, 1, 4)
                      month == SubSeq(head, 5, 6)
                      day == SubSeq(head, 7, 8)
                  IN  IF /\ all_ascii_digits(head)
                         /\ parse_u32(month) >= 1 /\ parse_u32(month) <= 12
                         /\ parse_u32(day) >= 1 /\ parse_u32(day) <= 31
                      THEN year \o "-" \o month \o "-" \o day
                      ELSE date_str
             ELSE date_str

\* the Driver Date of a row of export_wmi_drivers_csv_static, before escape_csv
wmi_csv_driver_date(driver_date) ==
    IF driver_date = None THEN "Unknown"
    ELSE LET d == driver_date[1]
         IN  IF byte_len(d) >= 8 /\ all_ascii_digits(byte_prefix(d, 8))
             THEN SubSeq(d, 1, 4) \o "-" \o SubSeq(d, 5, 6) \o "-" \o SubSeq(d, 7, 8)
             ELSE d

extract_oem_inf_name(inf_name) ==
    LET inf_lower == to_lowercase(inf_name)
    IN  IF starts_with(inf_lower, "oem") /\ ends_with(inf_lower, ".inf")
        THEN IF \A i \in 1..Len(inf_lower) :
                    \/ is_ascii_alphanumeric(Char(inf_lower, i))
                    \/ Char(inf_lower, i) \in {".", "_"}
             THEN Some(inf_lower)
             ELSE None
        ELSE None

\* chars().map(|c| if c.is_alphanumeric() || <c is one of extra> { c } else { '_' })
RECURSIVE sanitize(_, _)
sanitize(s, extra) ==
    IF s = "" THEN ""
    ELSE (IF is_alphanumeric(Char(s, 1)) \/ Char(s, 1) \in extra THEN Char(s, 1) ELSE "_")
         \o sanitize(SubSeq(s, 2, Len(s)), extra)

class_folder_name(device_class) == sanitize(device_class, {" ", "-"})

package_folder_name(primary_device_name, driver_version) ==
    sanitize(primary_device_name \o "_" \o driver_version \o " Package",
             {" ", ".", "-", "_", "(", ")"})

export_folder_name(device_class, provider, version) ==
    sanitize(device_class \o "_" \o provider \o "_" \o version, {".", "-", "_"})

\* Path::join
join(dir, name) == dir \o "\\" \o name

output_path == "driver_backup"
base_backup_dir == join(output_path, "drivers_20240101_000000")

\* the mutant of group_push that replaces the group's list by the new record
group_replace(groups, device_class, oem_inf, driver) ==
    insert(groups, device_class,
           insert(IF device_class \in DOMAIN groups THEN groups[device_class] ELSE EmptyMap,
                  oem_inf, <<driver>>))

\* a grouping that leaves out the records without a device class
group_push_classed(groups, device_class, oem_inf, driver) ==
    IF driver.device_class = None THEN groups
    ELSE LET infs == IF device_class \in DOMAIN groups THEN groups[device_class] ELSE EmptyMap
             members == IF oem_inf \in DOMAIN infs THEN infs[oem_inf] ELSE <<>>
         IN  insert(groups, device_class, insert(infs, oem_inf, members \o <<driver>>))

\* entry(device_class).or_default().entry(oem_inf).or_default().push(driver)
group_push(groups, device_class, oem_inf, driver) ==
    LET infs == IF device_class \in DOMAIN groups THEN groups[device_class] ELSE EmptyMap
        members == IF oem_inf \in DOMAIN infs THEN infs[oem_inf] ELSE <<>>
    IN  insert(groups, device_class, insert(infs, oem_inf, members \o <<driver>>))

\* the path test before the export
unsafe_path(backup_dir_str) == contains(backup_dir_str, "..") \/ contains(backup_dir_str, "%")

---------------------------------------------------------------------------
(* DriverBackup::backup_drivers as a state machine *)

BackupInit ==
    /\ command = "Backup"
    /\ dry_run \in BOOLEAN
    /\ wmi_drivers \in DriverLists
    /\ drivers_by_class_inf = EmptyMap
    /\ class_queue = <<>>
    /\ inf_queue = <<>>
    /\ cur_class = ""
    /\ backed_up_count = 0
    /\ failed_count = 0
    /\ driver_info = <<>>
    /\ exported_infs = {}
    /\ success_count = 0
    /\ fail_count = 0
    /\ next_driver = 1
    /\ mkdir_log = <<>>
    /\ labels = {}
    /\ fs_files = {}
    /\ pnputil_calls = <<>>
    /\ bpc = "start"

\* create_base_backup_directory succeeds: the directory exists, dry run or not
CreateBaseDir ==
    /\ command = "Backup" /\ bpc = "start"
    /\ mkdir_log' = Append(mkdir_log, [path |-> base_backup_dir, for |-> "base"])
    /\ bpc' = "group"
    /\ UNCHANGED <<command, dry_run, wmi_drivers, drivers_by_class_inf, class_queue,
                   inf_queue, cur_class, backed_up_count, failed_count, driver_info,
                   exported_infs, success_count, fail_count, next_driver, labels,
                   fs_files, pnputil_calls>>
    /\ UNCHANGED <<pvars, svars, uvars>>

\* create_base_backup_directory fails and backup_drivers returns the error
CreateBaseDirFails ==
    /\ command = "Backup" /\ bpc = "start"
    /\ bpc' = "failed"
    /\ UNCHANGED <<command, dry_run, wmi_drivers, drivers_by_class_inf, class_queue,
                   inf_queue, cur_class, backed_up_count, failed_count, driver_info,
                   exported_infs, success_count, fail_count, next_driver, mkdir_log,
                   labels, fs_files, pnputil_calls>>
    /\ UNCHANGED <<pvars, svars, uvars>>

GroupFrame ==
    /\ next_driver' = next_driver + 1
    /\ UNCHANGED <<command, dry_run, wmi_drivers, class_queue, inf_queue, cur_class,
                   backed_up_count, failed_count, driver_info, exported_infs,
                   success_count, fail_count, mkdir_log, labels, fs_files,
                   pnputil_calls, bpc>>
    /\ UNCHANGED <<pvars, svars, uvars>>

AtGroup == command = "Backup" /\ bpc = "group" /\ next_driver <= Len(wmi_drivers)

\* one pass of the grouping loop: a record with an OEM package identity
GroupDriver ==
    /\ AtGroup
    /\ LET driver == wmi_drivers[next_driver]
       IN  /\ driver.inf_name # None
           /\ extract_oem_inf_name(driver.inf_name[1]) # None
           /\ drivers_by_class_inf' =
                  group_push(drivers_by_class_inf,
                             unwrap_or(driver.device_class, "Unknown_Class"),
                             extract_oem_inf_name(driver.inf_name[1])[1],
                             driver)
    /\ GroupFrame

\* one pass of the grouping loop: an inf name that is no OEM package identity
SkipNonOemInf ==
    /\ AtGroup
    /\ wmi_drivers[next_driver].inf_name # None
    /\ extract_oem_inf_name(wmi_drivers[next_driver].inf_name[1]) = None
    /\ UNCHANGED drivers_by_class_inf
    /\ GroupFrame

\* one pass of the grouping loop: a record without an inf name
SkipNoInfName ==
    /\ AtGroup
    /\ wmi_drivers[next_driver].inf_name = None
    /\ UNCHANGED drivers_by_class_inf
    /\ GroupFrame

SortClassKeys ==
    /\ command = "Backup" /\ bpc = "group" /\ next_driver > Len(wmi_drivers)
    /\ class_queue' = sorted(DOMAIN drivers_by_class_inf)
    /\ bpc' = "classes"
    /\ UNCHANGED <<command, dry_run, wmi_drivers, drivers_by_class_inf, inf_queue,
                   cur_class, backed_up_count, failed_count, driver_info, exported_infs,
                   success_count, fail_count, next_driver, mkdir_log, labels, fs_files,
                   pnputil_calls>>
    /\ UNCHANGED <<pvars, svars, uvars>>

class_backup_dir(device_class) == join(base_backup_dir, class_folder_name(device_class))

\* the head of the class loop: the class folder is named and, unless this is
\* a dry run, created; the package keys of the class are sorted
EnterClass ==
    /\ command = "Backup" /\ bpc = "classes" /\ class_queue # <<>>
    /\ LET device_class == Head(class_queue)
       IN  /\ labels' = labels \cup {class_folder_name(device_class)}
           /\ mkdir_log' = IF dry_run THEN mkdir_log
                           ELSE Append(mkdir_log, [path |-> class_backup_dir(device_class),
                                                   for |-> device_class])
           /\ cur_class' = device_class
           /\ inf_queue' = sorted(DOMAIN drivers_by_class_inf[device_class])
    /\ class_queue' = Tail(class_queue)
    /\ bpc' = "packages"
    /\ UNCHANGED <<command, dry_run, wmi_drivers, drivers_by_class_inf, backed_up_count,
                   failed_count, driver_info, exported_infs, success_count, fail_count,
                   next_driver, fs_files, pnputil_calls>>
    /\ UNCHANGED <<pvars, svars, uvars>>

\* create_dir_all of the class folder fails and backup_drivers returns the error
EnterClassMkdirFails ==
    /\ command = "Backup" /\ bpc = "classes" /\ class_queue # <<>>
    /\ ~dry_run
    /\ labels' = labels \cup {class_folder_name(Head(class_queue))}
    /\ bpc' = "failed"
    /\ UNCHANGED <<command, dry_run, wmi_drivers, drivers_by_class_inf, class_queue,
                   inf_queue, cur_class, backed_up_count, failed_count, driver_info,
                   exported_infs, success_count, fail_count, next_driver, mkdir_log,
                   fs_files, pnputil_calls>>
    /\ UNCHANGED <<pvars, svars, uvars>>

LeaveClass ==
    /\ command = "Backup" /\ bpc = "packages" /\ inf_queue = <<>>
    /\ bpc' = "classes"
    /\ UNCHANGED <<command, dry_run, wmi_drivers, drivers_by_class_inf, class_queue,
                   inf_queue, cur_class, backed_up_count, failed_count, driver_info,
                   exported_infs, success_count, fail_count, next_driver, mkdir_log,
                   labels, fs_files, pnputil_calls>>
    /\ UNCHANGED <<pvars, svars, uvars>>

AtPackage == command = "Backup" /\ bpc = "packages" /\ inf_queue # <<>>

drivers_for_package == drivers_by_class_inf[cur_class][Head(inf_queue)]

folder_name ==
    package_folder_name(unwrap_or(drivers_for_package[1].device_name, "Unknown_Device"),
                        unwrap_or(drivers_for_package[1].driver_version, "Unknown_Version"))

driver_backup_dir == join(class_backup_dir(cur_class), folder_name)

PackageFrame ==
    /\ labels' = labels \cup {folder_name}
    /\ inf_queue' = Tail(inf_queue)
    /\ UNCHANGED <<command, dry_run, wmi_drivers, drivers_by_class_inf, class_queue,
                   cur_class, exported_infs, success_count, fail_count, next_driver,
                   fs_files, bpc>>
    /\ UNCHANGED <<pvars, svars, uvars>>

PackageDirCreated ==
    mkdir_log' = Append(mkdir_log, [path |-> driver_backup_dir, for |-> Head(inf_queue)])

PnputilCall(outcome) ==
    pnputil_calls' = Append(pnputil_calls,
                            [package |-> Head(inf_queue), dir |-> driver_backup_dir,
                             outcome |-> outcome])

\* a dry run counts the package as exported and touches nothing
PackageDryRun ==
    /\ AtPackage /\ dry_run
    /\ backed_up_count' = backed_up_count + 1
    /\ driver_info' = driver_info \o drivers_for_package
    /\ UNCHANGED <<failed_count, mkdir_log, pnputil_calls>>
    /\ PackageFrame

\* create_dir_all of the package folder fails and backup_drivers returns the error
PackageMkdirFails ==
    /\ AtPackage /\ ~dry_run
    /\ labels' = labels \cup {folder_name}
    /\ bpc' = "failed"
    /\ UNCHANGED <<command, dry_run, wmi_drivers, drivers_by_class_inf, class_queue,
                   inf_queue, cur_class, backed_up_count, failed_count, driver_info,
                   exported_infs, success_count, fail_count, next_driver, mkdir_log,
                   fs_files, pnputil_calls>>
    /\ UNCHANGED <<pvars, svars, uvars>>

\* the folder is created, its path holds ".." or "%", the export is skipped
PackageUnsafePath ==
    /\ AtPackage /\ ~dry_run
    /\ unsafe_path(driver_backup_dir)
    /\ PackageDirCreated
    /\ failed_count' = failed_count + 1
    /\ UNCHANGED <<backed_up_count, driver_info, pnputil_calls>>
    /\ PackageFrame

PackageExported ==
    /\ AtPackage /\ ~dry_run
    /\ ~unsafe_path(driver_backup_dir)
    /\ PackageDirCreated
    /\ PnputilCall("success")
    /\ backed_up_count' = backed_up_count + 1
    /\ driver_info' = driver_info \o drivers_for_package
    /\ UNCHANGED failed_count
    /\ PackageFrame

\* a non-zero status of the export utility that no counter records
PackageExportFailedUncounted ==
    /\ AtPackage /\ ~dry_run
    /\ ~unsafe_path(driver_backup_dir)
    /\ PackageDirCreated
    /\ PnputilCall("nonzero")
    /\ UNCHANGED <<backed_up_count, failed_count, driver_info>>
    /\ PackageFrame

\* the export utility ran and returned a non-zero status
PackageExportFailed ==
    /\ AtPackage /\ ~dry_run
    /\ ~unsafe_path(driver_backup_dir)
    /\ PackageDirCreated
    /\ PnputilCall("nonzero")
    /\ failed_count' = failed_count + 1
    /\ UNCHANGED <<backed_up_count, driver_info>>
    /\ PackageFrame

\* the export utility could not be launched
PackageLaunchFailed ==
    /\ AtPackage /\ ~dry_run
    /\ ~unsafe_path(driver_backup_dir)
    /\ PackageDirCreated
    /\ PnputilCall("launch_error")
    /\ failed_count' = failed_count + 1
    /\ UNCHANGED <<backed_up_count, driver_info>>
    /\ PackageFrame

BackupEndFrame ==
    UNCHANGED <<command, dry_run, wmi_drivers, drivers_by_class_inf, class_queue,
                inf_queue, cur_class, backed_up_count, failed_count, driver_info,
                exported_infs, success_count, fail_count, next_driver, mkdir_log,
                labels, pnputil_calls>>

AtSummary == command = "Backup" /\ bpc = "classes" /\ class_queue = <<>>

\* the counts are printed; a dry run ends here
FinishDryRun ==
    /\ AtSummary /\ dry_run
    /\ bpc' = "done"
    /\ UNCHANGED fs_files
    /\ BackupEndFrame
    /\ UNCHANGED <<pvars, svars, uvars>>

\* scan_and_export finds INF files in the backup folder and writes the summary
FinishWithSummary ==
    /\ AtSummary /\ ~dry_run
    /\ backed_up_count > 0
    /\ fs_files' = fs_files \cup {join(base_backup_dir, "all_drivers.csv")}
    /\ bpc' = "done"
    /\ BackupEndFrame
    /\ UNCHANGED <<pvars, svars, uvars>>

\* scan_and_export finds no INF file, or parses none, and writes nothing
FinishWithoutSummary ==
    /\ AtSummary /\ ~dry_run
    /\ bpc' = "done"
    /\ UNCHANGED fs_files
    /\ BackupEndFrame
    /\ UNCHANGED <<pvars, svars, uvars>>

\* scan_and_export fails (the directory walk, or the CSV write)
FinishSummaryFails ==
    /\ AtSummary /\ ~dry_run
    /\ bpc' = "failed"
    /\ UNCHANGED fs_files
    /\ BackupEndFrame
    /\ UNCHANGED <<pvars, svars, uvars>>

---------------------------------------------------------------------------
(* main, Commands::Export with --files, as a state machine *)

\* output.parent().join("drivers_<timestamp>") for the default output
export_backup_dir == "drivers_20240101_000000"

ExportInit ==
    /\ command = "ExportFiles"
    /\ dry_run = FALSE
    /\ wmi_drivers \in DriverLists
    /\ drivers_by_class_inf = EmptyMap
    /\ class_queue = <<>>
    /\ inf_queue = <<>>
    /\ cur_class = ""
    /\ backed_up_count = 0
    /\ failed_count = 0
    /\ driver_info = <<>>
    /\ exported_infs = {}
    /\ success_count = 0
    /\ fail_count = 0
    /\ next_driver = 1
    /\ mkdir_log = <<>>
    /\ labels = {}
    /\ fs_files = {}
    /\ pnputil_calls = <<>>
    /\ bpc = "start"

ExportFrame ==
    /\ UNCHANGED <<command, dry_run, wmi_drivers, drivers_by_class_inf, class_queue,
                   inf_queue, cur_class, backed_up_count, failed_count, driver_info>>
    /\ UNCHANGED <<pvars, svars, uvars>>

ExportCreateBackupDir ==
    /\ command = "ExportFiles" /\ bpc = "start"
    /\ mkdir_log' = Append(mkdir_log, [path |-> export_backup_dir, for |-> "base"])
    /\ bpc' = "export"
    /\ UNCHANGED <<exported_infs, success_count, fail_count, next_driver, labels,
                   fs_files, pnputil_calls>>
    /\ ExportFrame

ExportCreateBackupDirFails ==
    /\ command = "ExportFiles" /\ bpc = "start"
    /\ bpc' = "failed"
    /\ UNCHANGED <<exported_infs, success_count, fail_count, next_driver, mkdir_log,
                   labels, fs_files, pnputil_calls>>
    /\ ExportFrame

AtExport == command = "ExportFiles" /\ bpc = "export" /\ next_driver <= Len(wmi_drivers)

\* the test of the loop body: an inf name that starts with "oem" in lower
\* case and was not exported yet
export_wanted(driver, exported) ==
    /\ driver.inf_name # None
    /\ starts_with(to_lowercase(driver.inf_name[1]), "oem")
    /\ to_lowercase(driver.inf_name[1]) \notin exported

ExportSkipDriver ==
    /\ AtExport
    /\ ~export_wanted(wmi_drivers[next_driver], exported_infs)
    /\ next_driver' = next_driver + 1
    /\ UNCHANGED <<exported_infs, success_count, fail_count, mkdir_log, labels,
                   fs_files, pnputil_calls, bpc>>
    /\ ExportFrame

export_driver_dir(driver) ==
    join(export_backup_dir,
         export_folder_name(unwrap_or(driver.device_class, "Unknown"),
                            unwrap_or(driver.driver_provider_name, "Unknown"),
                            unwrap_or(driver.driver_version, "Unknown")))

\* the body of the loop up to the launch of the export utility: the folder
\* is named, create_dir_all is tried and its result dropped, and the utility
\* is launched with the inf name of the record
ExportLaunch(driver, outcome) ==
    /\ export_wanted(driver, exported_infs)
    /\ exported_infs' = exported_infs \cup {to_lowercase(driver.inf_name[1])}
    /\ labels' = labels \cup
           {export_folder_name(unwrap_or(driver.device_class, "Unknown"),
                               unwrap_or(driver.driver_provider_name, "Unknown"),
                               unwrap_or(driver.driver_version, "Unknown"))}
    /\ \E made \in BOOLEAN :
          mkdir_log' = IF made
                       THEN Append(mkdir_log, [path |-> export_driver_dir(driver),
                                               for |-> driver.inf_name[1]])
                       ELSE mkdir_log
    /\ pnputil_calls' = Append(pnputil_calls,
                               [package |-> driver.inf_name[1],
                                dir |-> export_driver_dir(driver),
                                outcome |-> outcome])
    /\ next_driver' = next_driver + 1
    /\ UNCHANGED <<fs_files, bpc>>
    /\ ExportFrame

ExportDriverOk ==
    /\ AtExport
    /\ ExportLaunch(wmi_drivers[next_driver], "success")
    /\ success_count' = success_count + 1
    /\ UNCHANGED fail_count

ExportDriverFailed ==
    /\ AtExport
    /\ \E outcome \in {"nonzero", "launch_error"} :
          ExportLaunch(wmi_drivers[next_driver], outcome)
    /\ fail_count' = fail_count + 1
    /\ UNCHANGED success_count

\* export_wmi_drivers_csv_static writes all_drivers.csv
ExportWriteCsv ==
    /\ command = "ExportFiles" /\ bpc = "export" /\ next_driver > Len(wmi_drivers)
    /\ fs_files' = fs_files \cup {join(export_backup_dir, "all_drivers.csv")}
    /\ bpc' = "done"
    /\ UNCHANGED <<exported_infs, success_count, fail_count, next_driver, mkdir_log,
                   labels, pnputil_calls>>
    /\ ExportFrame

ExportWriteCsvFails ==
    /\ command = "ExportFiles" /\ bpc = "export" /\ next_driver > Len(wmi_drivers)
    /\ bpc' = "failed"
    /\ UNCHANGED <<exported_infs, success_count, fail_count, next_driver, mkdir_log,
                   labels, fs_files, pnputil_calls>>
    /\ ExportFrame

---------------------------------------------------------------------------
(* backup_drivers and the Export --files loop on a list of records *)

SpecDriversInit == (BackupInit \/ ExportInit) /\ ParseIdle /\ ScanIdle /\ CallIdle

DriversNext ==
    \/ CreateBaseDir
    \/ CreateBaseDirFails
    \/ GroupDriver
    \/ SkipNonOemInf
    \/ SkipNoInfName
    \/ SortClassKeys
    \/ EnterClass
    \/ EnterClassMkdirFails
    \/ LeaveClass
    \/ PackageDryRun
    \/ PackageMkdirFails
    \/ PackageUnsafePath
    \/ PackageExported
    \/ PackageExportFailed
    \/ PackageLaunchFailed
    \/ FinishDryRun
    \/ FinishWithSummary
    \/ FinishWithoutSummary
    \/ FinishSummaryFails
    \/ ExportCreateBackupDir
    \/ ExportCreateBackupDirFails
    \/ ExportSkipDriver
    \/ ExportDriverOk
    \/ ExportDriverFailed
    \/ ExportWriteCsv
    \/ ExportWriteCsvFails

SpecDrivers == SpecDriversInit /\ [][DriversNext]_vars

---------------------------------------------------------------------------
(* Properties of backup_drivers and of the Export --files loop *)

\* the grouping loop of backup_drivers has taken every record
Grouped == command = "Backup" /\ bpc \in {"classes", "packages", "done"}

\* the places of the groups: <<class key, package identity, position>>
GroupSlots ==
    UNION {UNION {{<<c, i, k>> : k \in 1..Len(drivers_by_class_inf[c][i])} :
                    i \in DOMAIN drivers_by_class_inf[c]} :
             c \in DOMAIN drivers_by_class_inf}

\* the input records that carry a valid OEM package identity
ExportableIdx ==
    {j \in 1..Len(wmi_drivers) :
        /\ wmi_drivers[j].inf_name # None
        /\ extract_oem_inf_name(wmi_drivers[j].inf_name[1]) # None}

Identities == {to_lowercase(wmi_drivers[j].inf_name[1]) : j \in ExportableIdx}

\* C5: in a non-dry-run backup, for every distinct normalized OEM package
\* identity among the input records the export utility is invoked exactly
\* once and exactly one package folder is created, however many records
\* share the identity and whatever their device classes are.
C5_OneExportPerIdentity ==
    (command = "Backup" /\ ~dry_run /\ bpc = "done") =>
        \A id \in Identities :
            /\ Cardinality({k \in DOMAIN pnputil_calls : pnputil_calls[k].package = id}) = 1
            /\ Cardinality({mkdir_log[k].path :
                               k \in {n \in DOMAIN mkdir_log : mkdir_log[n].for = id}}) = 1

\* the characters a folder label may hold
LabelChars == AlphanumericChars \cup {" ", ".", "-", "_", "(", ")", "[", "]"}

\* C6: every folder label derived from record fields (the class folder and
\* the package folder of backup_drivers, the per-driver folder of Export
\* --files) holds only allow-listed characters, is at most 100 long and does
\* not end with an underscore.
C6_FolderLabelsSafe ==
    \A l \in labels :
        /\ \A i \in 1..Len(l) : Char(l, i) \in LabelChars
        /\ Len(l) <= 100
        /\ ~ends_with(l, "_")

\* the package-name validity rule
valid_package_name(name) ==
    LET lower == to_lowercase(name)
    IN  /\ starts_with(lower, "oem")
        /\ ends_with(lower, ".inf")
        /\ \A i \in 1..Len(name) :
              is_ascii_alphanumeric(Char(name, i)) \/ Char(name, i) \in {".", "_"}

\* C7: the package identity passed to the export utility always satisfies
\* the package-name validity rule, on the backup path and on the Export
\* --files path; a record whose inf name fails the rule causes no export.
C7_ExportedPackageValid ==
    \A k \in DOMAIN pnputil_calls : valid_package_name(pnputil_calls[k].package)

\* the number of (class, package identity) groups
NumGroups ==
    Cardinality(UNION {{<<c, i>> : i \in DOMAIN drivers_by_class_inf[c]} :
                          c \in DOMAIN drivers_by_class_inf})

\* C8: once backup_drivers processes package groups, a failure on one
\* package (creating its directory, launching the export utility, a non-zero
\* export status) is counted in failed_count and every remaining group is
\* still processed: the run ends only with every group taken and counted.
C8_FailureNeverCutsRunShort ==
    (command = "Backup" /\ bpc \in {"done", "failed"}) =>
        /\ class_queue = <<>>
        /\ inf_queue = <<>>
        /\ backed_up_count + failed_count = NumGroups

\* the input records with a valid OEM package identity and no device class
UnclassedIdx == {j \in ExportableIdx : wmi_drivers[j].device_class = None}

UnknownClassDir == base_backup_dir \o "\\" \o "Unknown_Class"

\* C22: in backup_drivers a record with a valid OEM package identity and no
\* device_class is in the group of class key "Unknown_Class" and of its
\* identity, and in a run that completes its package has been processed
\* under that class: listed as exported in a dry run, given a package folder
\* under the folder of Unknown_Class otherwise.
C22_NoClassGoesToUnknownClass ==
    \A j \in UnclassedIdx :
        LET id == to_lowercase(wmi_drivers[j].inf_name[1])
        IN  /\ Grouped =>
                /\ "Unknown_Class" \in DOMAIN drivers_by_class_inf
                /\ id \in DOMAIN drivers_by_class_inf["Unknown_Class"]
                /\ \E k \in DOMAIN drivers_by_class_inf["Unknown_Class"][id] :
                       drivers_by_class_inf["Unknown_Class"][id][k] = wmi_drivers[j]
            /\ (command = "Backup" /\ bpc = "done" /\ dry_run) =>
                   \E k \in DOMAIN driver_info : driver_info[k] = wmi_drivers[j]
            /\ (command = "Backup" /\ bpc = "done" /\ ~dry_run) =>
                   \E k \in DOMAIN mkdir_log :
                       /\ mkdir_log[k].for = id
                       /\ SubSeq(mkdir_log[k].path, 1, Len(UnknownClassDir) + 1)
                              = UnknownClassDir \o "\\"

\* a record without a class after a record of class Net, both of oem2.inf:
\* the export utility is run for the package in the folder of Unknown_Class
C22_Witness ==
    /\ command = "Backup" /\ bpc = "done" /\ ~dry_run
    /\ Len(wmi_drivers) = 2
    /\ wmi_drivers[1].device_id = "D4" /\ wmi_drivers[2].device_id = "D3"
    /\ \E k \in DOMAIN pnputil_calls :
           /\ pnputil_calls[k].package = "oem2.inf"
           /\ pnputil_calls[k].outcome = "success"
           /\ pnputil_calls[k].dir =
                  UnknownClassDir \o "\\" \o "Unknown_Device_Unknown_Version Package"

\* the (class, package) groups, and those the loops have not taken yet
AllGroups ==
    UNION {{<<c, i>> : i \in DOMAIN drivers_by_class_inf[c]} : c \in DOMAIN drivers_by_class_inf}
GroupsToCome ==
    {<<cur_class, inf_queue[k]>> : k \in 1..Len(inf_queue)}
        \cup UNION {{<<class_queue[k], i>> : i \in DOMAIN drivers_by_class_inf[class_queue[k]]} :
                       k \in 1..Len(class_queue)}
GroupsTaken == AllGroups \ GroupsToCome

\* the package folder of a group
GroupDir(g) ==
    LET first == drivers_by_class_inf[g[1]][g[2]][1]
    IN  base_backup_dir \o "\\" \o class_folder_name(g[1]) \o "\\"
            \o package_folder_name(unwrap_or(first.device_name, "Unknown_Device"),
                                   unwrap_or(first.driver_version, "Unknown_Version"))
CallsFor(g) ==
    {k \in DOMAIN pnputil_calls :
        pnputil_calls[k].package = g[2] /\ pnputil_calls[k].dir = GroupDir(g)}
CallsWith(outcomes) == {k \in DOMAIN pnputil_calls : pnputil_calls[k].outcome \in outcomes}

C30_TempDirRemovedOnReturn ==
    (operation = "inspect" /\ needs_cleanup /\ spc = "done") => ~temp_dir

\* the same on the two exit paths that run remove_dir_all
C30_RemovedOnOkAndNoFiles ==
    (/\ operation = "inspect" /\ needs_cleanup /\ spc = "done"
     /\ \/ op_result = "Ok"
        \/ inf_files = <<>> /\ discovered) => ~temp_dir

\* C29: a dry-run backup changes nothing outside the process: backup_drivers
\* never runs the export utility, creates no directory and writes no file,
\* while every package group is counted as exported.
C29_DryRunTouchesNothing ==
    (command = "Backup" /\ dry_run) =>
        /\ pnputil_calls = <<>>
        /\ mkdir_log = <<>>
        /\ fs_files = {}
        /\ bpc = "done" =>
               /\ backed_up_count = Cardinality(AllGroups)
               /\ failed_count = 0

\* the same run but for the directory create_base_backup_directory makes
C29_DryRunOnlyBaseDir ==
    (command = "Backup" /\ dry_run) =>
        /\ pnputil_calls = <<>>
        /\ \A k \in DOMAIN mkdir_log : mkdir_log[k].for = "base"
        /\ Len(mkdir_log) <= 1
        /\ fs_files = {}
        /\ bpc = "done" =>
               /\ backed_up_count = Cardinality(AllGroups)
               /\ failed_count = 0

\* the export of call k is into a package folder of class c
ExportedUnder(k, c) ==
    /\ pnputil_calls[k].package \in DOMAIN drivers_by_class_inf[c]
    /\ SubSeq(pnputil_calls[k].dir, 1, Len(class_backup_dir(c)) + 1)
           = class_backup_dir(c) \o "\\"

\* C28: in backup_drivers two distinct package identities of the same device
\* class are never exported into the same package folder: the folder name
\* made of the device name and the version of a group's first record is
\* unique per package within a class.
C28_PackageFolderUnique ==
    command = "Backup" =>
        \A k, m \in DOMAIN pnputil_calls :
            \A c \in DOMAIN drivers_by_class_inf :
                (/\ ExportedUnder(k, c) /\ ExportedUnder(m, c)
                 /\ pnputil_calls[k].package # pnputil_calls[m].package)
                    => pnputil_calls[k].dir # pnputil_calls[m].dir

\* the class key and the package identity a record is grouped under
ClassKeyOf(d) == IF d.device_class = None THEN "Unknown_Class" ELSE d.device_class[1]
IdentityOf(d) == to_lowercase(d.inf_name[1])

\* a comes before b in the order of the bytes of the two strings
Precedes(a, b) ==
    \E k \in 0..Len(a) :
        /\ k <= Len(b)
        /\ SubSeq(a, 1, k) = SubSeq(b, 1, k)
        /\ \/ k = Len(a) /\ k < Len(b)
           \/ k < Len(a) /\ k < Len(b) /\ Code(Char(a, k + 1)) < Code(Char(b, k + 1))
Ascending(keys) == \A i, j \in 1..Len(keys) : i < j => Precedes(keys[i], keys[j])

SameGroup(d, e) == ClassKeyOf(d) = ClassKeyOf(e) /\ IdentityOf(d) = IdentityOf(e)
GroupPrecedes(d, e) ==
    \/ Precedes(ClassKeyOf(d), ClassKeyOf(e))
    \/ ClassKeyOf(d) = ClassKeyOf(e) /\ Precedes(IdentityOf(d), IdentityOf(e))

\* the records of the input that are grouped with d, in the order of the input
InputGroupOf(d) ==
    SelectSeq(wmi_drivers,
              LAMBDA e : e.inf_name # None /\ extract_oem_inf_name(e.inf_name[1]) # None
                         /\ SameGroup(d, e))

\* C20: backup_drivers processes the package groups in one fixed order: the
\* classes still to come are in ascending order of their keys and all after
\* the class being processed, the packages still to come in that class are in
\* ascending order of their identities; and the exported records are listed
\* group by group in that order, the records of a group in the order of the
\* input.
C20_GroupsInAscendingOrder ==
    command = "Backup" =>
        /\ bpc \in {"classes", "packages"} => Ascending(class_queue)
        /\ bpc = "packages" =>
               /\ Ascending(inf_queue)
               /\ \A i \in 1..Len(class_queue) : Precedes(cur_class, class_queue[i])
        /\ \A i, j \in 1..Len(driver_info) :
               i < j => \/ GroupPrecedes(driver_info[i], driver_info[j])
                        \/ SameGroup(driver_info[i], driver_info[j])
        /\ \A i \in 1..Len(driver_info) :
               LET d == driver_info[i]
                   first == CHOOSE k \in 1..i :
                                /\ SameGroup(driver_info[k], d)
                                /\ \A m \in 1..(k - 1) : ~SameGroup(driver_info[m], d)
               IN  /\ i - first + 1 <= Len(InputGroupOf(d))
                   /\ d = InputGroupOf(d)[i - first + 1]

\* two packages of one class given in descending order of their identities:
\* they are exported in ascending order
C20_Witness ==
    /\ command = "Backup" /\ bpc = "done"
    /\ Len(wmi_drivers) = 2
    /\ wmi_drivers[1].device_id = "D4" /\ wmi_drivers[2].device_id = "D1"
    /\ Len(driver_info) = 2
    /\ driver_info[1].device_id = "D1" /\ driver_info[2].device_id = "D4"

---------------------------------------------------------------------------
(* InfParser: file discovery, parse_inf_file as a function, the CSV writers *)

MaxFiles == 2

\* a file under the folder: its path relative to the folder, whether fs::read
\* succeeds on it, and the lines of its decoded text
File(path, readable, text) == [path |-> path, readable |-> readable, text |-> text]

\* the paths are chosen so that the order of PathBuf (component by
\* component) is the order of their bytes
InfPaths == {"a.inf", "B.INF", "sub/e.inf"}
ScanTexts ==
    {<<>>,
     Flatten(<<BVersion, BStrings, BMfg, BDev>>),
     Flatten(<<BVersion, BStrings, BMfg, BDev, BDevDecorated>>)}
FilePool ==
    {File(p, TRUE, t) : p \in InfPaths, t \in ScanTexts}
        \cup {File(p, FALSE, <<>>) : p \in InfPaths}
        \cup {File("readme.txt", TRUE, <<>>)}
Folders ==
    {F \in SUBSET FilePool :
        /\ Cardinality(F) <= MaxFiles
        /\ \A f, g \in F : f.path = g.path => f = g}

\* Path::file_name and Path::extension
path_file_name(path) == LET parts == split(path, "/") IN parts[Len(parts)]
path_extension(path) ==
    LET parts == split(path_file_name(path), ".")
    IN  IF Len(parts) < 2 THEN None ELSE Some(parts[Len(parts)])
has_inf_extension(path) ==
    path_extension(path) # None /\ to_lowercase(path_extension(path)[1]) = "inf"

find_inf_files(F) == sorted({f.path : f \in {g \in F : has_inf_extension(g.path)}})
find_inf_files_in_folder(F) ==
    sorted({f.path : f \in {g \in F : has_inf_extension(g.path) /\ ~contains(g.path, "/")}})

\* the values parse_inf_file may return on a readable file, one for each
\* order in which the two maps may be iterated
parse_inf_file(f) ==
    LET st == scan_lines(ParserStart, f.text)
        fname == path_file_name(f.path)
    IN  {ParsedInfFile(fname,
                       build_drivers(sec_order, st.device_sections, st.version_info,
                                     st.manufacturers, st.string_table, fname, mfg_order),
                       st.version_info) :
            sec_order \in Orders(DOMAIN st.device_sections),
            mfg_order \in Orders(DOMAIN st.manufacturers)}

\* str::replace of one character
RECURSIVE replace(_, _, _)
replace(s, c, r) ==
    IF s = "" THEN ""
    ELSE (IF Char(s, 1) = c THEN r ELSE Char(s, 1)) \o replace(SubSeq(s, 2, Len(s)), c, r)

escape_csv(s) ==
    IF contains(s, ",") \/ contains(s, "\"") \/ contains(s, "\n")
    THEN "\"" \o replace(s, "\"", "\"\"") \o "\""
    ELSE s

\* a writer's closure that wraps a field without doubling its quotes
escape_csv_wrap_only(s) ==
    IF contains(s, ",") \/ contains(s, "\"") \/ contains(s, "\n")
    THEN "\"" \o s \o "\""
    ELSE s

\* the closure of export_to_csv
escape_csv_inspect(s) ==
    IF contains(s, ",") \/ contains(s, "\"") \/ contains(s, "\n")
    THEN "\"" \o replace(s, "\"", "\"\"") \o "\""
    ELSE s

\* the closure of export_wmi_drivers_csv_static
escape_csv_wmi(s) ==
    IF contains(s, ",") \/ contains(s, "\"") \/ contains(s, "\n")
    THEN "\"" \o replace(s, "\"", "\"\"") \o "\""
    ELSE s

\* the closure of export_backup_summary_csv
escape_csv_summary(s) ==
    IF contains(s, ",") \/ contains(s, "\"") \/ contains(s, "\n")
    THEN "\"" \o replace(s, "\"", "\"\"") \o "\""
    ELSE s

\* [String]::join
RECURSIVE join_with(_, _)
join_with(strs, sep) ==
    IF strs = <<>> THEN ""
    ELSE IF Len(strs) = 1 THEN strs[1]
    ELSE strs[1] \o sep \o join_with(Tail(strs), sep)

\* iter().filter_map(|d| d.field.clone()).collect() for two fields
device_names_of(drv) ==
    LET named == SelectSeq(drv, LAMBDA d : d.device_name # None)
    IN  [i \in 1..Len(named) |-> named[i].device_name[1]]
hardware_ids_of(drv) ==
    LET with_id == SelectSeq(drv, LAMBDA d : d.hardware_id # None)
    IN  [i \in 1..Len(with_id) |-> with_id[i].hardware_id[1]]

resolved_provider(parsed) ==
    LET provider == unwrap_or(parsed.raw_version_info.provider, "Unknown")
    IN  IF starts_with(provider, "%") /\ ends_with(provider, "%")
        THEN IF parsed.drivers = <<>> THEN provider
             ELSE unwrap_or(parsed.drivers[1].driver_provider_name, provider)
        ELSE provider

ScanCsvHeader ==
    <<"INF File", "Device Class", "Provider", "Driver Version", "Driver Date",
      "Device Count", "Device Names", "Hardware IDs">>

scan_csv_row(parsed) ==
    <<escape_csv(parsed.file_name),
      escape_csv(unwrap_or(parsed.raw_version_info.class, "Unknown")),
      escape_csv(resolved_provider(parsed)),
      escape_csv(unwrap_or(parsed.raw_version_info.driver_version, "Unknown")),
      escape_csv(unwrap_or(parsed.raw_version_info.driver_date, "Unknown")),
      ToString(Len(parsed.drivers)),
      escape_csv(join_with(device_names_of(parsed.drivers), "; ")),
      escape_csv(join_with(hardware_ids_of(parsed.drivers), "; "))>>

\* the lines export_scan_csv writes, each as its fields
export_scan_csv(parsed) ==
    <<ScanCsvHeader>> \o [i \in 1..Len(parsed) |-> scan_csv_row(parsed[i])]

InspectCsvHeader ==
    <<"Device Name", "Driver Version", "Driver Date", "Hardware ID", "INF Name",
      "Description", "Provider", "Device Class", "Class GUID", "Catalog File",
      "Manufacturer">>

inspect_csv_row(driver) ==
    <<escape_csv_inspect(unwrap_or(driver.device_name, "Unknown")),
      escape_csv_inspect(unwrap_or(driver.driver_version, "Unknown")),
      escape_csv_inspect(unwrap_or(driver.driver_date, "Unknown")),
      escape_csv_inspect(unwrap_or(driver.hardware_id, "Unknown")),
      escape_csv_inspect(unwrap_or(driver.inf_name, "Unknown")),
      escape_csv_inspect(unwrap_or(driver.description, "Unknown")),
      escape_csv_inspect(unwrap_or(driver.driver_provider_name, "Unknown")),
      escape_csv_inspect(unwrap_or(driver.device_class, "Unknown")),
      escape_csv_inspect(unwrap_or(driver.class_guid, "Unknown")),
      escape_csv_inspect(unwrap_or(driver.catalog_file, "Unknown")),
      escape_csv_inspect(unwrap_or(driver.manufacturer, "Unknown"))>>

RECURSIVE all_drivers_of(_)
all_drivers_of(parsed) ==
    IF parsed = <<>> THEN <<>> ELSE Head(parsed).drivers \o all_drivers_of(Tail(parsed))

\* the lines export_to_csv writes, each as its fields
export_to_csv(parsed) ==
    <<InspectCsvHeader>>
        \o [i \in 1..Len(all_drivers_of(parsed)) |-> inspect_csv_row(all_drivers_of(parsed)[i])]

\* parsed_files.iter().map(|f| f.drivers.len()).sum()
total_devices(parsed) == Len(all_drivers_of(parsed))

\* the two arms of the match on parse_inf_file's result in scan_folder
push_parsed(files, parsed) == Append(files, parsed)
drop_parse_error(errors, path, e) == errors
push_parse_error(errors, path, e) == Append(errors, <<path, e>>)

---------------------------------------------------------------------------
(* InfParser::scan_folder as a state machine *)

OperationStart ==
    /\ discovered = FALSE
    /\ inf_files = <<>>
    /\ file_idx = 1
    /\ parsed_files = <<>>
    /\ parse_errors = <<>>
    /\ report = <<>>
    /\ csv_rows = <<>>
    /\ csv_written = FALSE
    /\ needs_cleanup = FALSE
    /\ temp_dir = FALSE
    /\ op_result = "running"
    /\ spc = "start"

ScanInit ==
    /\ operation = "scan"
    /\ path_kind \in {"dir", "inf"}
    /\ recursive \in BOOLEAN
    /\ output \in BOOLEAN
    /\ folder \in Folders
    /\ path_kind # "dir" => folder = {}
    /\ OperationStart

\* what no step of either operation changes
OperationFrame ==
    UNCHANGED <<operation, path_kind, recursive, output, folder, pvars, bvars, uvars>>

\* the operation returns
Return(result) ==
    /\ op_result' = result
    /\ spc' = "done"

file_at(path) == CHOOSE f \in folder : f.path = path

ScanPathNotDir ==
    /\ operation = "scan" /\ spc = "start" /\ path_kind # "dir"
    /\ Return("Err")
    /\ UNCHANGED <<discovered, inf_files, file_idx, parsed_files, parse_errors, report,
                   csv_rows, csv_written, needs_cleanup, temp_dir>>
    /\ OperationFrame

ScanFindFiles ==
    /\ operation = "scan" /\ spc = "start" /\ path_kind = "dir"
    /\ inf_files' = IF recursive THEN find_inf_files(folder)
                                 ELSE find_inf_files_in_folder(folder)
    /\ discovered' = TRUE
    /\ spc' = "check"
    /\ UNCHANGED <<file_idx, parsed_files, parse_errors, report, csv_rows, csv_written,
                   needs_cleanup, temp_dir, op_result>>
    /\ OperationFrame

\* fs::read_dir or an entry of it fails
ScanFindFails ==
    /\ operation = "scan" /\ spc = "start" /\ path_kind = "dir"
    /\ Return("Err")
    /\ UNCHANGED <<discovered, inf_files, file_idx, parsed_files, parse_errors, report,
                   csv_rows, csv_written, needs_cleanup, temp_dir>>
    /\ OperationFrame

ScanNoFiles ==
    /\ operation = "scan" /\ spc = "check" /\ inf_files = <<>>
    /\ Return("Ok")
    /\ UNCHANGED <<discovered, inf_files, file_idx, parsed_files, parse_errors, report,
                   csv_rows, csv_written, needs_cleanup, temp_dir>>
    /\ OperationFrame

ScanFilesFound ==
    /\ operation = "scan" /\ spc = "check" /\ inf_files # <<>>
    /\ spc' = "parse"
    /\ UNCHANGED <<discovered, inf_files, file_idx, parsed_files, parse_errors, report,
                   csv_rows, csv_written, needs_cleanup, temp_dir, op_result>>
    /\ OperationFrame

ScanParseOk ==
    /\ operation = "scan" /\ spc = "parse" /\ file_idx <= Len(inf_files)
    /\ file_at(inf_files[file_idx]).readable
    /\ \E parsed \in parse_inf_file(file_at(inf_files[file_idx])) :
           parsed_files' = push_parsed(parsed_files, parsed)
    /\ file_idx' = file_idx + 1
    /\ UNCHANGED <<discovered, inf_files, parse_errors, report, csv_rows, csv_written,
                   needs_cleanup, temp_dir, op_result, spc>>
    /\ OperationFrame

ScanParseErr ==
    /\ operation = "scan" /\ spc = "parse" /\ file_idx <= Len(inf_files)
    /\ ~file_at(inf_files[file_idx]).readable
    /\ parse_errors' = push_parse_error(parse_errors, inf_files[file_idx], "read failed")
    /\ file_idx' = file_idx + 1
    /\ UNCHANGED <<discovered, inf_files, parsed_files, report, csv_rows, csv_written,
                   needs_cleanup, temp_dir, op_result, spc>>
    /\ OperationFrame

\* the summary printed after the loop
ScanReport ==
    /\ operation = "scan" /\ spc = "parse" /\ file_idx > Len(inf_files)
    /\ report' = Some([total |-> Len(inf_files),
                       parsed |-> Len(parsed_files),
                       failed |-> Len(parse_errors),
                       total_devices |-> total_devices(parsed_files)])
    /\ spc' = "csv"
    /\ UNCHANGED <<discovered, inf_files, file_idx, parsed_files, parse_errors,
                   csv_rows, csv_written, needs_cleanup, temp_dir, op_result>>
    /\ OperationFrame

ScanNoCsv ==
    /\ operation = "scan" /\ spc = "csv" /\ ~output
    /\ Return("Ok")
    /\ UNCHANGED <<discovered, inf_files, file_idx, parsed_files, parse_errors, report,
                   csv_rows, csv_written, needs_cleanup, temp_dir>>
    /\ OperationFrame

ScanWriteCsv ==
    /\ operation = "scan" /\ spc = "csv" /\ output
    /\ csv_rows' = export_scan_csv(parsed_files)
    /\ csv_written' = TRUE
    /\ Return("Ok")
    /\ UNCHANGED <<discovered, inf_files, file_idx, parsed_files, parse_errors, report,
                   needs_cleanup, temp_dir>>
    /\ OperationFrame

\* fs::write fails
ScanWriteCsvFails ==
    /\ operation = "scan" /\ spc = "csv" /\ output
    /\ Return("Err")
    /\ UNCHANGED <<discovered, inf_files, file_idx, parsed_files, parse_errors, report,
                   csv_rows, csv_written, needs_cleanup, temp_dir>>
    /\ OperationFrame

---------------------------------------------------------------------------
(* InfParser::inspect as a state machine *)

InspectInit ==
    /\ operation = "inspect"
    /\ path_kind \in {"dir", "inf", "archive", "other"}
    /\ recursive = TRUE
    /\ output \in BOOLEAN
    /\ folder \in Folders
    /\ path_kind = "other" => folder = {}
    /\ OperationStart

\* extract_or_use_path on a directory or on a single INF file
InspectUsePath ==
    /\ operation = "inspect" /\ spc = "start" /\ path_kind \in {"dir", "inf"}
    /\ needs_cleanup' = FALSE
    /\ spc' = "find"
    /\ UNCHANGED <<discovered, inf_files, file_idx, parsed_files, parse_errors, report,
                   csv_rows, csv_written, temp_dir, op_result>>
    /\ OperationFrame

\* extract_or_use_path on an archive, extracted into a fresh directory
InspectExtract ==
    /\ operation = "inspect" /\ spc = "start" /\ path_kind = "archive"
    /\ temp_dir' = TRUE
    /\ needs_cleanup' = TRUE
    /\ spc' = "find"
    /\ UNCHANGED <<discovered, inf_files, file_idx, parsed_files, parse_errors, report,
                   csv_rows, csv_written, op_result>>
    /\ OperationFrame

\* the directory cannot be made, or both extractors fail and it is removed
InspectExtractFails ==
    /\ operation = "inspect" /\ spc = "start" /\ path_kind = "archive"
    /\ temp_dir' = FALSE
    /\ Return("Err")
    /\ UNCHANGED <<discovered, inf_files, file_idx, parsed_files, parse_errors, report,
                   csv_rows, csv_written, needs_cleanup>>
    /\ OperationFrame

InspectUnsupported ==
    /\ operation = "inspect" /\ spc = "start" /\ path_kind = "other"
    /\ Return("Err")
    /\ UNCHANGED <<discovered, inf_files, file_idx, parsed_files, parse_errors, report,
                   csv_rows, csv_written, needs_cleanup, temp_dir>>
    /\ OperationFrame

InspectFindFiles ==
    /\ operation = "inspect" /\ spc = "find"
    /\ inf_files' = find_inf_files(folder)
    /\ discovered' = TRUE
    /\ spc' = "check"
    /\ UNCHANGED <<file_idx, parsed_files, parse_errors, report, csv_rows, csv_written,
                   needs_cleanup, temp_dir, op_result>>
    /\ OperationFrame

InspectFindFails ==
    /\ operation = "inspect" /\ spc = "find"
    /\ Return("Err")
    /\ UNCHANGED <<discovered, inf_files, file_idx, parsed_files, parse_errors, report,
                   csv_rows, csv_written, needs_cleanup, temp_dir>>
    /\ OperationFrame

InspectNoFiles ==
    /\ operation = "inspect" /\ spc = "check" /\ inf_files = <<>>
    /\ temp_dir' = IF needs_cleanup THEN FALSE ELSE temp_dir
    /\ Return("Err")
    /\ UNCHANGED <<discovered, inf_files, file_idx, parsed_files, parse_errors, report,
                   csv_rows, csv_written, needs_cleanup>>
    /\ OperationFrame

InspectFilesFound ==
    /\ operation = "inspect" /\ spc = "check" /\ inf_files # <<>>
    /\ spc' = "parse"
    /\ UNCHANGED <<discovered, inf_files, file_idx, parsed_files, parse_errors, report,
                   csv_rows, csv_written, needs_cleanup, temp_dir, op_result>>
    /\ OperationFrame

InspectParseOk ==
    /\ operation = "inspect" /\ spc = "parse" /\ file_idx <= Len(inf_files)
    /\ file_at(inf_files[file_idx]).readable
    /\ \E parsed \in parse_inf_file(file_at(inf_files[file_idx])) :
           parsed_files' = push_parsed(parsed_files, parsed)
    /\ file_idx' = file_idx + 1
    /\ UNCHANGED <<discovered, inf_files, parse_errors, report, csv_rows, csv_written,
                   needs_cleanup, temp_dir, op_result, spc>>
    /\ OperationFrame

\* the error is printed when verbose and otherwise dropped
InspectParseErr ==
    /\ operation = "inspect" /\ spc = "parse" /\ file_idx <= Len(inf_files)
    /\ ~file_at(inf_files[file_idx]).readable
    /\ file_idx' = file_idx + 1
    /\ UNCHANGED <<discovered, inf_files, parsed_files, parse_errors, report, csv_rows,
                   csv_written, needs_cleanup, temp_dir, op_result, spc>>
    /\ OperationFrame

\* display_results
InspectDisplay ==
    /\ operation = "inspect" /\ spc = "parse" /\ file_idx > Len(inf_files)
    /\ report' = Some([parsed |-> Len(parsed_files),
                       total_devices |-> total_devices(parsed_files)])
    /\ spc' = "csv"
    /\ UNCHANGED <<discovered, inf_files, file_idx, parsed_files, parse_errors,
                   csv_rows, csv_written, needs_cleanup, temp_dir, op_result>>
    /\ OperationFrame

InspectNoCsv ==
    /\ operation = "inspect" /\ spc = "csv" /\ ~output
    /\ spc' = "cleanup"
    /\ UNCHANGED <<discovered, inf_files, file_idx, parsed_files, parse_errors, report,
                   csv_rows, csv_written, needs_cleanup, temp_dir, op_result>>
    /\ OperationFrame

InspectWriteCsv ==
    /\ operation = "inspect" /\ spc = "csv" /\ output
    /\ csv_rows' = export_to_csv(parsed_files)
    /\ csv_written' = TRUE
    /\ spc' = "cleanup"
    /\ UNCHANGED <<discovered, inf_files, file_idx, parsed_files, parse_errors, report,
                   needs_cleanup, temp_dir, op_result>>
    /\ OperationFrame

InspectWriteCsvFails ==
    /\ operation = "inspect" /\ spc = "csv" /\ output
    /\ Return("Err")
    /\ UNCHANGED <<discovered, inf_files, file_idx, parsed_files, parse_errors, report,
                   csv_rows, csv_written, needs_cleanup, temp_dir>>
    /\ OperationFrame

InspectCleanup ==
    /\ operation = "inspect" /\ spc = "cleanup"
    /\ temp_dir' = IF needs_cleanup THEN FALSE ELSE temp_dir
    /\ Return("Ok")
    /\ UNCHANGED <<discovered, inf_files, file_idx, parsed_files, parse_errors, report,
                   csv_rows, csv_written, needs_cleanup>>
    /\ OperationFrame

---------------------------------------------------------------------------
(* scan_folder and inspect on a folder of files *)

SpecScanInit == (ScanInit \/ InspectInit) /\ ParseIdle /\ BackupIdle /\ CallIdle

ScanNext ==
    \/ ScanPathNotDir
    \/ ScanFindFiles
    \/ ScanFindFails
    \/ ScanNoFiles
    \/ ScanFilesFound
    \/ ScanParseOk
    \/ ScanParseErr
    \/ ScanReport
    \/ ScanNoCsv
    \/ ScanWriteCsv
    \/ ScanWriteCsvFails
    \/ InspectUsePath
    \/ InspectExtract
    \/ InspectExtractFails
    \/ InspectUnsupported
    \/ InspectFindFiles
    \/ InspectFindFails
    \/ InspectNoFiles
    \/ InspectFilesFound
    \/ InspectParseOk
    \/ InspectParseErr
    \/ InspectDisplay
    \/ InspectNoCsv
    \/ InspectWriteCsv
    \/ InspectWriteCsvFails
    \/ InspectCleanup

SpecScan == SpecScanInit /\ [][ScanNext]_vars

---------------------------------------------------------------------------
(* Properties of scan_folder and inspect *)

\* C9: when file discovery has returned no INF file, the operation, inspect
\* or scan, ends with an error result and has written no CSV.
C9_NoFilesIsAnError ==
    (spc = "done" /\ discovered /\ inf_files = <<>>) =>
        /\ op_result = "Err"
        /\ ~csv_written
        /\ csv_rows = <<>>

\* the files the parse loop has taken so far, by the result of reading them
TakenFiles == SubSeq(inf_files, 1, file_idx - 1)
TakenReadable == SelectSeq(TakenFiles, LAMBDA p : file_at(p).readable)
TakenUnreadable == SelectSeq(TakenFiles, LAMBDA p : ~file_at(p).readable)

\* C10: in scan_folder, the parsed list holds one entry for each readable
\* file taken so far and the parse-error list one entry for each unreadable
\* one, both in discovery order, so that every file is in exactly one list
\* and parsed + errors = files taken; the summary is printed only after every
\* discovered file was taken and counts parsed + failed = files found, with
\* the device total that of the parsed files alone; and the CSV holds one
\* row per parsed file and none for a file that failed to parse.
C10_EachFileParsedOrRecorded ==
    (operation = "scan" /\ discovered) =>
        /\ Len(parsed_files) + Len(parse_errors) = file_idx - 1
        /\ Len(parsed_files) = Len(TakenReadable)
        /\ \A i \in 1..Len(parsed_files) :
               parsed_files[i] \in parse_inf_file(file_at(TakenReadable[i]))
        /\ [i \in 1..Len(parse_errors) |-> parse_errors[i][1]] = TakenUnreadable
        /\ report # <<>> =>
               /\ file_idx = Len(inf_files) + 1
               /\ report[1].total = Len(inf_files)
               /\ report[1].parsed + report[1].failed = report[1].total
               /\ report[1].total_devices = total_devices(parsed_files)
        /\ csv_written =>
               /\ report # <<>>
               /\ Len(csv_rows) = 1 + Len(parsed_files)
               /\ \A r \in 2..Len(csv_rows) :
                      /\ csv_rows[r][1] = escape_csv(path_file_name(TakenReadable[r - 1]))
                      /\ \A i \in 1..Len(TakenUnreadable) :
                             csv_rows[r][1] # escape_csv(path_file_name(TakenUnreadable[i]))

\* a finished scan whose first file could not be read and whose second file
\* was parsed into at least one device entry and written to the CSV
C10_Witness ==
    /\ operation = "scan" /\ spc = "done" /\ op_result = "Ok" /\ csv_written
    /\ Len(inf_files) = 2
    /\ ~file_at(inf_files[1]).readable
    /\ file_at(inf_files[2]).readable
    /\ Len(parse_errors) = 1 /\ parse_errors[1][1] = inf_files[1]
    /\ Len(parsed_files) = 1 /\ parsed_files[1].drivers # <<>>
    /\ Len(csv_rows) = 2

---------------------------------------------------------------------------
(* InfParser::read_inf_content: the bytes of a file to its text, a text being
   the sequence of the code points of its characters *)

Ok(v) == [ok |-> TRUE, val |-> v]
Err(e) == [ok |-> FALSE, val |-> e]

REPLACEMENT_CHARACTER == 65533

\* the number of bytes the first byte of a UTF-8 sequence announces, 0 for a
\* byte that cannot start one
utf8_char_width(b) ==
    CASE b < 128 -> 1
      [] b >= 194 /\ b <= 223 -> 2
      [] b >= 224 /\ b <= 239 -> 3
      [] b >= 240 /\ b <= 244 -> 4
      [] OTHER -> 0

\* the bytes allowed second in a sequence that starts with b
utf8_second_ok(b, c) ==
    CASE b = 224 -> c >= 160 /\ c <= 191
      [] b = 237 -> c >= 128 /\ c <= 159
      [] b = 240 -> c >= 144 /\ c <= 191
      [] b = 244 -> c >= 128 /\ c <= 143
      [] OTHER -> c >= 128 /\ c <= 191
utf8_cont(c) == c >= 128 /\ c <= 191

\* the sequence at the head of the bytes: whether it is valid, its code point,
\* and the number of bytes it takes (for an invalid one, the bytes one
\* replacement character stands for)
utf8_next(bytes) ==
    LET b == bytes[1]
        w == utf8_char_width(b)
        has(i) == Len(bytes) >= i
    IN  CASE w = 0 -> [valid |-> FALSE, len |-> 1, cp |-> 0]
          [] w = 1 -> [valid |-> TRUE, len |-> 1, cp |-> b]
          [] ~(has(2) /\ utf8_second_ok(b, bytes[2])) -> [valid |-> FALSE, len |-> 1, cp |-> 0]
          [] w = 2 -> [valid |-> TRUE, len |-> 2, cp |-> (b - 192) * 64 + (bytes[2] - 128)]
          [] ~(has(3) /\ utf8_cont(bytes[3])) -> [valid |-> FALSE, len |-> 2, cp |-> 0]
          [] w = 3 -> [valid |-> TRUE, len |-> 3,
                       cp |-> (b - 224) * 4096 + (bytes[2] - 128) * 64 + (bytes[3] - 128)]
          [] ~(has(4) /\ utf8_cont(bytes[4])) -> [valid |-> FALSE, len |-> 3, cp |-> 0]
          [] OTHER -> [valid |-> TRUE, len |-> 4,
                       cp |-> (b - 240) * 262144 + (bytes[2] - 128) * 4096
                              + (bytes[3] - 128) * 64 + (bytes[4] - 128)]

\* String::from_utf8_lossy: each invalid sequence becomes U+FFFD
RECURSIVE from_utf8_lossy(_)
from_utf8_lossy(bytes) ==
    IF bytes = <<>> THEN <<>>
    ELSE LET n == utf8_next(bytes)
         IN  <<IF n.valid THEN n.cp ELSE REPLACEMENT_CHARACTER>>
             \o from_utf8_lossy(SubSeq(bytes, n.len + 1, Len(bytes)))

\* String::from_utf8: the text, or an error at the first invalid sequence
RECURSIVE from_utf8(_)
from_utf8(bytes) ==
    IF bytes = <<>> THEN Ok(<<>>)
    ELSE LET n == utf8_next(bytes)
         IN  IF ~n.valid THEN Err("FromUtf8Error")
             ELSE LET rest == from_utf8(SubSeq(bytes, n.len + 1, Len(bytes)))
                  IN  IF rest.ok THEN Ok(<<n.cp>> \o rest.val) ELSE rest

is_high_surrogate(u) == u >= 55296 /\ u <= 56319
is_low_surrogate(u) == u >= 56320 /\ u <= 57343

\* String::from_utf16_lossy: each unpaired surrogate becomes U+FFFD
RECURSIVE from_utf16_lossy(_)
from_utf16_lossy(units) ==
    IF units = <<>> THEN <<>>
    ELSE LET u == units[1]
         IN  IF is_high_surrogate(u) /\ Len(units) >= 2 /\ is_low_surrogate(units[2])
             THEN <<65536 + (u - 55296) * 1024 + (units[2] - 56320)>>
                  \o from_utf16_lossy(SubSeq(units, 3, Len(units)))
             ELSE <<IF is_high_surrogate(u) \/ is_low_surrogate(u)
                    THEN REPLACEMENT_CHARACTER ELSE u>>
                  \o from_utf16_lossy(Tail(units))

\* chunks(2) with the chunk of one byte left out, each chunk read as a u16
utf16_units_le(bytes) ==
    [i \in 1..(Len(bytes) \div 2) |-> bytes[2 * i - 1] + 256 * bytes[2 * i]]
utf16_units_be(bytes) ==
    [i \in 1..(Len(bytes) \div 2) |-> 256 * bytes[2 * i - 1] + bytes[2 * i]]

\* read_inf_content failing on bytes that are not UTF-8
read_inf_content_strict(bytes) ==
    CASE Len(bytes) >= 2 /\ bytes[1] = 255 /\ bytes[2] = 254 ->
            Ok(from_utf16_lossy(utf16_units_le(SubSeq(bytes, 3, Len(bytes)))))
      [] Len(bytes) >= 2 /\ bytes[1] = 254 /\ bytes[2] = 255 ->
            Ok(from_utf16_lossy(utf16_units_be(SubSeq(bytes, 3, Len(bytes)))))
      [] Len(bytes) >= 3 /\ bytes[1] = 239 /\ bytes[2] = 187 /\ bytes[3] = 191 ->
            Ok(from_utf8_lossy(SubSeq(bytes, 4, Len(bytes))))
      [] OTHER -> from_utf8(bytes)

\* what read_inf_content makes of the bytes it has read
read_inf_content(bytes) ==
    IF Len(bytes) >= 2 /\ bytes[1] = 255 /\ bytes[2] = 254
    THEN Ok(from_utf16_lossy(utf16_units_le(SubSeq(bytes, 3, Len(bytes)))))
    ELSE IF Len(bytes) >= 2 /\ bytes[1] = 254 /\ bytes[2] = 255
    THEN Ok(from_utf16_lossy(utf16_units_be(SubSeq(bytes, 3, Len(bytes)))))
    ELSE IF Len(bytes) >= 3 /\ bytes[1] = 239 /\ bytes[2] = 187 /\ bytes[3] = 191
    THEN Ok(from_utf8_lossy(SubSeq(bytes, 4, Len(bytes))))
    ELSE LET s == from_utf8(bytes)
         IN  IF s.ok THEN Ok(s.val) ELSE Ok([i \in 1..Len(bytes) |-> bytes[i]])

---------------------------------------------------------------------------
(* The functions of the program called on given arguments *)

\* what a call leaves alone
CallFrame == UNCHANGED <<call, pvars, bvars, svars>>

\* the ways a driverver line may be written for a date D and a version V
DriverVerForms == {"plain", "spaced", "quoted", "each quoted", "date quoted"}
DriverVerLine(key, D, V, form) ==
    CASE form = "plain" -> key \o "=" \o D \o "," \o V
      [] form = "spaced" -> key \o " = " \o D \o " , " \o V \o " "
      [] form = "quoted" -> key \o "=\"" \o D \o "," \o V \o "\""
      [] form = "each quoted" -> key \o "=\"" \o D \o "\",\"" \o V \o "\""
      [] form = "date quoted" -> key \o "=\"" \o D \o "\"," \o V

DriverVerKeys == {"DriverVer", "DRIVERVER", "driverver"}
DriverVerDates == {"06/21/2006", "2006/06/21", "20060621"}
DriverVerVersions == {"1.2.3", "10.0.19041.1", "1.2,3"}

ParseVersionLineCalls ==
    {[fn |-> "parse_version_line", line |-> DriverVerLine(k, D, V, f), D |-> D, V |-> V] :
        k \in DriverVerKeys, D \in DriverVerDates, V \in DriverVerVersions,
        f \in DriverVerForms}

CallParseVersionLine ==
    /\ call.fn = "parse_version_line" /\ returned = None
    /\ returned' = Some(parse_version_line(call.line, InfVersionInfo_default))
    /\ CallFrame

DriverDates ==
    {None, Some(""), Some("2006062"), Some("20060621"), Some("20061301"),
     Some("20060001"), Some("20061200"), Some("20061231"), Some("20060132"),
     Some("2006062a"), Some("06/21/2006"), Some("2006-06-21"),
     Some("20060621000000.000000-000"), Some("200606215"), Some("20061301000000"),
     Some("2006/06/21 00:00")}

\* dates with a character of two bytes before, across and after the eighth
\* byte
UnicodeDates ==
    {Some("~"), Some("2006062~"), Some("2006062~1"), Some("2006~21"), Some("20060621~"),
     Some("~20060621"), Some("~~200606~")}

FormatDriverDateCalls ==
    {[fn |-> "format_driver_date", date |-> d] : d \in DriverDates \cup UnicodeDates}

CallFormatDriverDate ==
    /\ call.fn = "format_driver_date" /\ returned = None
    /\ returned' = IF date_slice_panics(call.date) THEN Panicked
                   ELSE Some(format_driver_date(call.date))
    /\ CallFrame

\* the Driver Date column of the row export_wmi_drivers_csv_static writes for
\* a group whose first record has the date
WmiCsvDateCalls ==
    {[fn |-> "export_wmi_drivers_csv_static", date |-> d] : d \in DriverDates \cup UnicodeDates}

CallWmiCsvDriverDate ==
    /\ call.fn = "export_wmi_drivers_csv_static" /\ returned = None
    /\ returned' = IF date_slice_panics(call.date) THEN Panicked
                   ELSE Some(escape_csv_wmi(wmi_csv_driver_date(call.date)))
    /\ CallFrame

\* the entries K="V" of a strings section and the ways a line may hold one
StringEntryPool ==
    {<<"DiskName", "ACME Disk">>, <<"DiskName", "Other">>, <<"diskname", "lower">>,
     <<"k", "v, 2">>, <<"a%b", "%k%">>}
\* the most [Strings] lines of a table
MaxStrings == 2
StringEntries == UNION {[1..n -> StringEntryPool] : n \in 0..MaxStrings}
StringLineForms == {"quoted", "bare"}
StringsLine_of(entry, form) ==
    IF form = "quoted" THEN entry[1] \o "=\"" \o entry[2] \o "\""
    ELSE " " \o entry[1] \o " = " \o entry[2]

ResolveInputs ==
    {"%DiskName%", "%diskname%", "%k%", "%Missing%", "%a%b%", "DiskName", "%DiskName",
     "DiskName%", "%%", "%", "", "100%", "% DiskName %"}

ResolveStringCalls ==
    {[fn |-> "resolve_string", s |-> s, entries |-> es, form |-> f] :
        s \in ResolveInputs, es \in StringEntries, f \in StringLineForms}

\* the string table a strings section with these entries gives
RECURSIVE string_table_of(_, _, _)
string_table_of(entries, form, st) ==
    IF entries = <<>> THEN st
    ELSE string_table_of(Tail(entries), form,
                         parse_strings_line(StringsLine_of(Head(entries), form), st))

CallResolveString ==
    /\ call.fn = "resolve_string" /\ returned = None
    /\ returned' = Some(resolve_string(call.s,
                                       string_table_of(call.entries, call.form, EmptyMap)))
    /\ CallFrame

\* device lines: a description, an install section, and what follows it
DeviceHardwareIds ==
    {"PCI\\VEN_1", "pci\\x", "usb\\vid_1", "HDAUDIO\\F", "Acpi\\P", "hid\\v", "SWD\\a",
     "Root\\b", "XVEN_1", "xdev_2", "FOO\\BAR", "PCI", "PCIX\\1", "VEN", "*PNP0A03"}
DeviceLineForms == {"id", "spaced id", "id and compatible", "empty id", "no id", "no equals"}
DeviceLine(H, form) ==
    CASE form = "id" -> "Dev=Inst," \o H
      [] form = "spaced id" -> " Dev = Inst ,  " \o H \o " "
      [] form = "id and compatible" -> "Dev=Inst," \o H \o ",USB\\COMPAT"
      [] form = "empty id" -> "Dev=Inst, ,PCI\\VEN_2"
      [] form = "no id" -> "Dev=Inst"
      [] form = "no equals" -> "Dev Inst," \o H

ParseDeviceLineCalls ==
    {[fn |-> "parse_device_line", line |-> DeviceLine(H, f), H |-> H, form |-> f] :
        H \in DeviceHardwareIds, f \in DeviceLineForms}

\* the driver records of a file whose only device line, in section [mfg], is
\* the given one
records_of_device_line(line) ==
    LET ds == parse_device_line(line, "mfg", EmptyMap)
    IN  build_drivers(IF "mfg" \in DOMAIN ds THEN <<"mfg">> ELSE <<>>, ds,
                      InfVersionInfo_default, EmptyMap, EmptyMap, "a.inf", <<>>)

CallParseDeviceLine ==
    /\ call.fn = "parse_device_line" /\ returned = None
    /\ returned' = Some(records_of_device_line(call.line))
    /\ CallFrame

\* fields of a CSV row: every string of at most MaxFieldLen of these characters
MaxFieldLen == 3
FieldChars == {"a", " ", ",", "\"", "\n", "\r"}
RECURSIVE FieldsOfLen(_)
FieldsOfLen(n) ==
    IF n = 0 THEN {""} ELSE {c \o f : c \in FieldChars, f \in FieldsOfLen(n - 1)}
Fields == UNION {FieldsOfLen(n) : n \in 0..MaxFieldLen}
CsvWriters == {"export_scan_csv", "export_to_csv", "export_wmi_drivers_csv_static",
               "export_backup_summary_csv"}

EscapeCsvCalls ==
    {[fn |-> "escape_csv", writer |-> w, s |-> f] : w \in CsvWriters, f \in Fields}

CallEscapeCsv ==
    /\ call.fn = "escape_csv" /\ returned = None
    /\ returned' = Some(CASE call.writer = "export_scan_csv" -> escape_csv(call.s)
                          [] call.writer = "export_to_csv" -> escape_csv_inspect(call.s)
                          [] call.writer = "export_wmi_drivers_csv_static" -> escape_csv_wmi(call.s)
                          [] call.writer = "export_backup_summary_csv" -> escape_csv_summary(call.s))
    /\ CallFrame

\* byte buffers: every buffer of at most MaxBytes of these bytes (A, NUL, the
\* bytes of the three byte order marks, a two-byte lead and a surrogate half)
MaxBytes == 4
FileBytes == {65, 0, 255, 254, 239, 187, 191, 195, 216}
Buffers == UNION {[1..n -> FileBytes] : n \in 0..MaxBytes}

ReadInfContentCalls == {[fn |-> "read_inf_content", bytes |-> b] : b \in Buffers}

CallReadInfContent ==
    /\ call.fn = "read_inf_content" /\ returned = None
    /\ returned' = Some(read_inf_content(call.bytes))
    /\ CallFrame

\* display_results: the numbered device lines it prints, each as the number
\* and the name after it, file by file; idx is enumerate()'s index in the file
device_lines_of(parsed) ==
    [idx \in 1..Len(parsed.drivers) |->
        [number |-> (idx - 1) + 1,
         name |-> unwrap_or(parsed.drivers[idx].device_name, "Unknown")]]
RECURSIVE display_results(_)
display_results(files) ==
    IF files = <<>> THEN <<>>
    ELSE device_lines_of(Head(files)) \o display_results(Tail(files))

\* parsed files for the report: each with up to MaxDrivers device entries
ReportDevices == {"Dev", "Dev2"}
ReportDriverLists ==
    UNION {[1..n -> {records_of_device_line(d \o "=Inst,PCI\\VEN_1")[1] : d \in ReportDevices}] :
              n \in 0..MaxDrivers}
ReportFiles ==
    {ParsedInfFile("a.inf", drv, InfVersionInfo_default) : drv \in ReportDriverLists}
ReportFileLists == UNION {[1..n -> ReportFiles] : n \in 0..MaxFiles}

DisplayResultsCalls ==
    {[fn |-> "display_results", parsed_files |-> fs] : fs \in ReportFileLists}

CallDisplayResults ==
    /\ call.fn = "display_results" /\ returned = None
    /\ returned' = Some(display_results(call.parsed_files))
    /\ CallFrame

---------------------------------------------------------------------------
(* One call of one function *)

Calls == ParseVersionLineCalls \cup FormatDriverDateCalls \cup ResolveStringCalls
        \cup ParseDeviceLineCalls
        \cup EscapeCsvCalls
        \cup ReadInfContentCalls
        \cup DisplayResultsCalls
        \cup WmiCsvDateCalls

SpecCallsInit ==
    /\ call \in Calls
    /\ returned = None
    /\ ParseIdle /\ BackupIdle /\ ScanIdle

CallsNext ==
    \/ CallParseVersionLine
    \/ CallFormatDriverDate
    \/ CallResolveString
    \/ CallParseDeviceLine
    \/ CallEscapeCsv
    \/ CallReadInfContent
    \/ CallDisplayResults
    \/ CallWmiCsvDriverDate

SpecCalls == SpecCallsInit /\ [][CallsNext]_vars

---------------------------------------------------------------------------
(* Properties of the functions *)

\* C13: for every version-section line driverver=D,V the parsed VersionBlock
\* has driver_date D and driver_version V verbatim, surrounding whitespace
\* and quotes removed and the date not reformatted, and the raw date is the
\* date field of the driver-package CSV row.
C13_DriverVerVerbatim ==
    (call.fn = "parse_version_line" /\ returned # None) =>
        /\ returned[1].driver_date = Some(call.D)
        /\ returned[1].driver_version = Some(call.V)
        /\ scan_csv_row(ParsedInfFile("a.inf", <<>>, returned[1]))[5] = escape_csv(call.D)

\* the two-digit strings of the months 1..12 and of the days 1..31
MonthStrings ==
    {"01", "02", "03", "04", "05", "06", "07", "08", "09", "10", "11", "12"}
DayStrings ==
    {"01", "02", "03", "04", "05", "06", "07", "08", "09", "10",
     "11", "12", "13", "14", "15", "16", "17", "18", "19", "20",
     "21", "22", "23", "24", "25", "26", "27", "28", "29", "30", "31"}

\* the first eight characters are YYYYMMDD with a month and a day in range
StartsWithDate(s) ==
    /\ Len(s) >= 8
    /\ \A i \in 1..4 : Char(s, i) \in DigitChars
    /\ SubSeq(s, 5, 6) \in MonthStrings
    /\ SubSeq(s, 7, 8) \in DayStrings

Dashed(s) == SubSeq(s, 1, 4) \o "-" \o SubSeq(s, 5, 6) \o "-" \o SubSeq(s, 7, 8)

Wrapped(s) == Len(s) > 2 /\ Char(s, 1) = "%" /\ Char(s, Len(s)) = "%"
TokenOf(s) == SubSeq(s, 2, Len(s) - 1)

\* the positions of the entries for key K, the last of which gives its value
EntriesFor(entries, K) == {i \in DOMAIN entries : entries[i][1] = K}

\* C15: resolve_string always returns a string: a string wrapped in %...%
\* whose token is a key of the string table resolves to the value the
\* strings section gave that key, a wrapped string whose token is no key is
\* returned unchanged, delimiters included, and a string that is not wrapped
\* is returned unchanged.
C15_ResolveStringTotal ==
    (call.fn = "resolve_string" /\ returned # None) =>
        LET s == call.s
            hits == EntriesFor(call.entries, TokenOf(s))
        IN  IF Wrapped(s) /\ hits # {}
            THEN returned[1] = call.entries[CHOOSE i \in hits : \A j \in hits : j <= i][2]
            ELSE returned[1] = s

\* a reference to a key the table does not hold, returned as it was written
C15_Witness ==
    /\ call.fn = "resolve_string"
    /\ call.entries = <<<<"DiskName", "ACME Disk">>, <<"k", "v, 2">>>>
    /\ call.s = "%Missing%"
    /\ returned = Some("%Missing%")

\* the bus prefixes and the markers, in upper case
BusPrefixes == {"PCI\\", "USB\\", "HDAUDIO\\", "ACPI\\", "HID\\", "SWD\\", "ROOT\\"}
Markers == {"VEN_", "DEV_"}

\* the hardware id is not empty and, case-insensitively, starts with a bus
\* prefix or contains a marker
Recognized(h) ==
    /\ h # ""
    /\ \/ \E p \in BusPrefixes : starts_with(to_uppercase(h), p)
       \/ \E m \in Markers : contains(to_uppercase(h), m)

\* C16: every driver record has a hardware_id that is the non-empty second
\* comma-delimited field of the right-hand side of its device line and that
\* starts, case-insensitively, with PCI\, USB\, HDAUDIO\, ACPI\, HID\, SWD\
\* or ROOT\ or contains VEN_ or DEV_; a device line whose second field is
\* missing, empty or not of that kind gives no record, and no error.
C16_HardwareIdRecognized ==
    (call.fn = "parse_device_line" /\ returned # None) =>
        LET has_id == call.form \in {"id", "spaced id", "id and compatible"}
        IN  IF has_id /\ Recognized(call.H)
            THEN /\ Len(returned[1]) = 1
                 /\ returned[1][1].hardware_id = Some(call.H)
                 /\ returned[1][1].device_name = Some("Dev")
            ELSE returned[1] = <<>>

\* a line with an unrecognized id gives no record
C16_Witness ==
    /\ call.fn = "parse_device_line"
    /\ call.line = "Dev=Inst,FOO\\BAR,USB\\COMPAT"
    /\ returned = Some(<<>>)

\* what a reader of the CSV file makes of a field: a field in double quotes
\* loses them and each pair of quotes inside becomes one quote
RECURSIVE Undoubled(_)
Undoubled(s) ==
    IF s = "" THEN ""
    ELSE IF Len(s) >= 2 /\ SubSeq(s, 1, 2) = "\"\"" THEN "\"" \o Undoubled(SubSeq(s, 3, Len(s)))
    ELSE SubSeq(s, 1, 1) \o Undoubled(SubSeq(s, 2, Len(s)))
Unquoted(s) ==
    IF Len(s) >= 2 /\ SubSeq(s, 1, 1) = "\"" /\ SubSeq(s, Len(s), Len(s)) = "\""
    THEN Undoubled(SubSeq(s, 2, Len(s) - 1))
    ELSE s
CountOf(s, c) == Cardinality({i \in 1..Len(s) : SubSeq(s, i, i) = c})
NeedsQuotes(s) == \E i \in 1..Len(s) : SubSeq(s, i, i) \in {",", "\"", "\n"}

\* C17: every CSV writer puts a field in double quotes, with each quote inside
\* it doubled, exactly when the field contains a comma, a double quote or a
\* newline, and writes it unchanged otherwise; and reading the written field
\* back gives the field.
C17_CsvFieldRoundTrip ==
    (call.fn = "escape_csv" /\ returned # None) =>
        LET f == call.s
            w == returned[1]
        IN  /\ NeedsQuotes(f) =>
                /\ Len(w) = Len(f) + CountOf(f, "\"") + 2
                /\ SubSeq(w, 1, 1) = "\"" /\ SubSeq(w, Len(w), Len(w)) = "\""
                /\ CountOf(w, "\"") = 2 * CountOf(f, "\"") + 2
            /\ ~NeedsQuotes(f) => w = f
            /\ Unquoted(w) = f

\* a field with a comma and a quote, written by the writer of the driver list
C17_Witness ==
    /\ call = [fn |-> "escape_csv", writer |-> "export_wmi_drivers_csv_static", s |-> "a,\""]
    /\ returned = Some("\"a,\"\"\"")

HasPrefix(bytes, mark) == Len(bytes) >= Len(mark) /\ SubSeq(bytes, 1, Len(mark)) = mark
After(bytes, mark) == SubSeq(bytes, Len(mark) + 1, Len(bytes))
Utf16LeMark == <<255, 254>>
Utf16BeMark == <<254, 255>>
Utf8Mark == <<239, 187, 191>>

\* C19: decoding the bytes of a file gives a text for every byte buffer, never
\* an error: after FF FE the rest decoded as UTF-16LE, after FE FF the rest
\* decoded as UTF-16BE, after EF BB BF the rest decoded as UTF-8 with
\* replacement characters, and without a mark the bytes as UTF-8 when they are
\* valid UTF-8 and otherwise one character per byte, with the byte's value as
\* its code.
C19_DecodingNeverFails ==
    (call.fn = "read_inf_content" /\ returned # None) =>
        LET bytes == call.bytes
            out == returned[1]
        IN  /\ out.ok
            /\ HasPrefix(bytes, Utf16LeMark) =>
                   out.val = from_utf16_lossy(utf16_units_le(After(bytes, Utf16LeMark)))
            /\ HasPrefix(bytes, Utf16BeMark) =>
                   out.val = from_utf16_lossy(utf16_units_be(After(bytes, Utf16BeMark)))
            /\ HasPrefix(bytes, Utf8Mark) => out.val = from_utf8_lossy(After(bytes, Utf8Mark))
            /\ (~HasPrefix(bytes, Utf16LeMark) /\ ~HasPrefix(bytes, Utf16BeMark)
                    /\ ~HasPrefix(bytes, Utf8Mark)) =>
                   IF from_utf8(bytes).ok
                   THEN /\ out.val = from_utf8(bytes).val
                        /\ out.val = from_utf8_lossy(bytes)
                   ELSE /\ Len(out.val) = Len(bytes)
                        /\ \A i \in 1..Len(bytes) : out.val[i] = bytes[i]

\* bytes that are not UTF-8 and carry no mark: one character per byte
C19_Witness ==
    /\ call = [fn |-> "read_inf_content", bytes |-> <<65, 195, 65, 255>>]
    /\ returned = Some(Ok(<<65, 195, 65, 255>>))

\* C21: the text report numbers the records with one running counter: the
\* number printed for a record is one more than the number of records printed
\* before it in the whole report, and does not start again at a new file.
C21_OneRunningCounter ==
    (call.fn = "display_results" /\ returned # None) =>
        \A k \in 1..Len(returned[1]) : returned[1][k].number = k

\* C26: for every date value the Driver Date column written by
\* export_wmi_drivers_csv_static is what format_driver_date returns for the
\* same value.
C26_DateNormalizersAgree ==
    (call.fn = "export_wmi_drivers_csv_static" /\ returned # None) =>
        IF date_slice_panics(call.date) THEN returned = Panicked
        ELSE returned = Some(format_driver_date(call.date))

\* C27: format_driver_date returns a string for every input, an absent date
\* or any string, strings of eight or more bytes with multi-byte characters
\* included; it never aborts.
C27_FormatDriverDateNeverAborts ==
    (call.fn = "format_driver_date" /\ returned # None) =>
        /\ returned # Panicked
        /\ Len(returned) = 1

===========================================================================
